---- MODULE Spec2Model ----
(***************************************************************************)
(* The editor state core of json-ui-editor: the history store              *)
(* (editorReducer, EditorProvider) and the useEditorActions hook.          *)
(*                                                                         *)
(* Strings that the code builds or inspects character by character         *)
(* (identifiers, field-names, labels) are sequences of one-character       *)
(* strings; enumerations (control type, layout, mode, action type) are     *)
(* TLA+ strings.  "string | null" is a sequence of length 0 (null) or 1.   *)
(* An optional field of a TypeScript object is a key that the record may   *)
(* lack.                                                                   *)
(***************************************************************************)
EXTENDS Integers, Sequences, FiniteSets, TLC

VARIABLES state, now, steps, prev, lastAction, lastCall, trail, mutated,
          rendered, checked

vars == <<state, now, steps, prev, lastAction, lastCall, trail, mutated,
          rendered, checked>>

(***************************************************************************)
(* Bounds of the model.                                                    *)
(***************************************************************************)
\* commands dispatched in one session
MaxSteps == 5
\* last reading of the millisecond clock
MaxClock == 1
\* controls the palette adds to one schema
MaxControls == 3
\* palette and canvas commands in one session
MaxPaletteSteps == 4

(***************************************************************************)
(* Strings.                                                                *)
(***************************************************************************)
Null == <<>>

Some(x) == <<x>>

DigitChar == <<"0", "1", "2", "3", "4", "5", "6", "7", "8", "9">>

\* Number -> decimal string, as the template literal `${Date.now()}` does.
RECURSIVE Digits(_)
Digits(n) ==
  IF n < 10 THEN <<DigitChar[n + 1]>>
  ELSE Append(Digits(n \div 10), DigitChar[(n % 10) + 1])

\* The characters of a ControlType.
TypeChars(type) ==
  CASE type = "text"     -> <<"t", "e", "x", "t">>
    [] type = "email"    -> <<"e", "m", "a", "i", "l">>
    [] type = "password" -> <<"p", "a", "s", "s", "w", "o", "r", "d">>
    [] type = "select"   -> <<"s", "e", "l", "e", "c", "t">>
    [] type = "checkbox" -> <<"c", "h", "e", "c", "k", "b", "o", "x">>
    [] type = "button"   -> <<"b", "u", "t", "t", "o", "n">>
    [] type = "textarea" -> <<"t", "e", "x", "t", "a", "r", "e", "a">>
    [] type = "number"   -> <<"n", "u", "m", "b", "e", "r">>

\* String.prototype.toUpperCase on the letters a ControlType starts with.
ToUpperCase(ch) ==
  CASE ch = "t" -> "T"
    [] ch = "e" -> "E"
    [] ch = "p" -> "P"
    [] ch = "s" -> "S"
    [] ch = "c" -> "C"
    [] ch = "b" -> "B"
    [] ch = "n" -> "N"
    [] OTHER    -> ch

ControlTypes ==
  {"text", "email", "password", "select", "checkbox", "button", "textarea", "number"}

(***************************************************************************)
(* EditorContext: default schema and initial state.                        *)
(***************************************************************************)
defaultSchema ==
  [title       |-> <<"N", "e", "w", " ", "F", "o", "r", "m">>,
   description |-> <<>>,
   layout      |-> "vertical",
   controls    |-> <<>>]

\* A fixture of the test-suite, used in the payloads.
sampleControl ==
  [id       |-> <<"c", "1">>,
   type     |-> "text",
   label    |-> <<"T", "e", "s", "t">>,
   name     |-> <<"t", "e", "s", "t", "F", "i", "e", "l", "d">>,
   required |-> TRUE]

initialState(initialSchema) ==
  [present |-> [schema            |-> initialSchema,
                selectedControlId |-> Null,
                mode              |-> "visual",
                errors            |-> <<>>,
                isDirty           |-> FALSE],
   past    |-> <<>>,
   future  |-> <<>>]

(***************************************************************************)
(* editorReducer.                                                          *)
(***************************************************************************)
\* { ...a, ...b }: the keys of both, b's value where b has the key.
Spread(a, b) ==
  [k \in (DOMAIN a) \cup (DOMAIN b) |-> IF k \in DOMAIN b THEN b[k] ELSE a[k]]

\* Array.prototype.filter
RECURSIVE FilterControls(_, _)
FilterControls(controls, removedId) ==
  IF controls = <<>> THEN <<>>
  ELSE IF Head(controls).id /= removedId
       THEN <<Head(controls)>> \o FilterControls(Tail(controls), removedId)
       ELSE FilterControls(Tail(controls), removedId)

\* Variant of createHistoryEntry that forgets to empty future.
createHistoryEntry_KeepsFuture(s, newPresent) ==
  [present |-> newPresent,
   past    |-> Append(s.past, s.present),
   future  |-> s.future]

createHistoryEntry(s, newPresent) ==
  [present |-> newPresent,
   past    |-> Append(s.past, s.present),
   future  |-> <<>>]

ReduceSetSchema(s, a) ==
  createHistoryEntry(s, [s.present EXCEPT !.schema = a.payload, !.isDirty = TRUE])

ReduceUpdateSchemaMetadata(s, a) ==
  createHistoryEntry(s, [s.present EXCEPT
                           !.schema = Spread(s.present.schema, a.payload),
                           !.isDirty = TRUE])

\* Variant of ReduceUpdateControl that appends the control when no control
\* has the id.
ReduceUpdateControl_Upserts(s, a) ==
  LET controls == s.present.schema.controls
      updatedControls ==
        IF \E i \in 1..Len(controls) : controls[i].id = a.payload.controlId
        THEN [i \in 1..Len(controls) |->
                IF controls[i].id = a.payload.controlId
                THEN a.payload.control ELSE controls[i]]
        ELSE Append(controls, a.payload.control)
  IN createHistoryEntry(s, [s.present EXCEPT
                              !.schema = Spread(s.present.schema,
                                                [controls |-> updatedControls]),
                              !.isDirty = TRUE])

ReduceUpdateControl(s, a) ==
  LET controls == s.present.schema.controls
      updatedControls ==
        [i \in 1..Len(controls) |->
           IF controls[i].id = a.payload.controlId THEN a.payload.control ELSE controls[i]]
  IN createHistoryEntry(s, [s.present EXCEPT
                              !.schema = Spread(s.present.schema,
                                                [controls |-> updatedControls]),
                              !.isDirty = TRUE])

\* Variant of ReduceAddControl that puts the new control first.
ReduceAddControl_Prepends(s, a) ==
  createHistoryEntry(s, [s.present EXCEPT
                           !.schema = Spread(s.present.schema,
                                             [controls |-> <<a.payload>>
                                                             \o s.present.schema.controls]),
                           !.selectedControlId = Some(a.payload.id),
                           !.isDirty = TRUE])

ReduceAddControl(s, a) ==
  createHistoryEntry(s, [s.present EXCEPT
                           !.schema = Spread(s.present.schema,
                                             [controls |-> Append(s.present.schema.controls,
                                                                  a.payload)]),
                           !.selectedControlId = Some(a.payload.id),
                           !.isDirty = TRUE])

\* Variant of ReduceRemoveControl that removes only the first control with
\* the id.
ReduceRemoveControl_FirstOnly(s, a) ==
  LET controls == s.present.schema.controls
      hits == {i \in 1..Len(controls) : controls[i].id = a.payload}
      filteredControls ==
        IF hits = {} THEN controls
        ELSE LET k == CHOOSE i \in hits : \A j \in hits : i <= j
             IN SubSeq(controls, 1, k - 1) \o SubSeq(controls, k + 1, Len(controls))
  IN createHistoryEntry(s, [s.present EXCEPT
                              !.schema = Spread(s.present.schema,
                                                [controls |-> filteredControls]),
                              !.selectedControlId =
                                 IF s.present.selectedControlId = Some(a.payload)
                                 THEN Null ELSE s.present.selectedControlId,
                              !.isDirty = TRUE])

\* Variant of ReduceRemoveControl that keeps the selection of the removed
\* control.
ReduceRemoveControl_KeepsSelection(s, a) ==
  createHistoryEntry(s, [s.present EXCEPT
                           !.schema = Spread(s.present.schema,
                                             [controls |-> FilterControls(s.present.schema.controls,
                                                                          a.payload)]),
                           !.isDirty = TRUE])

ReduceRemoveControl(s, a) ==
  LET filteredControls == FilterControls(s.present.schema.controls, a.payload)
  IN createHistoryEntry(s, [s.present EXCEPT
                              !.schema = Spread(s.present.schema,
                                                [controls |-> filteredControls]),
                              !.selectedControlId =
                                 IF s.present.selectedControlId = Some(a.payload)
                                 THEN Null ELSE s.present.selectedControlId,
                              !.isDirty = TRUE])

\* Variant of ReduceReorderControls that drops a selection the new list does
\* not hold.
ReduceReorderControls_Deselects(s, a) ==
  createHistoryEntry(s, [s.present EXCEPT
                           !.schema = Spread(s.present.schema, [controls |-> a.payload]),
                           !.selectedControlId =
                              IF \E i \in 1..Len(a.payload) :
                                    Some(a.payload[i].id) = s.present.selectedControlId
                              THEN s.present.selectedControlId
                              ELSE Null,
                           !.isDirty = TRUE])

ReduceReorderControls(s, a) ==
  createHistoryEntry(s, [s.present EXCEPT
                           !.schema = Spread(s.present.schema, [controls |-> a.payload]),
                           !.isDirty = TRUE])

\* Variant of ReduceSelectControl that clears the selection when the
\* control is already selected.
ReduceSelectControl_Toggles(s, a) ==
  [s EXCEPT !.present =
     [s.present EXCEPT !.selectedControlId =
        IF s.present.selectedControlId = a.payload THEN Null ELSE a.payload]]

ReduceSelectControl(s, a) ==
  [s EXCEPT !.present = [s.present EXCEPT !.selectedControlId = a.payload]]

\* Variant of ReduceSetMode that also marks the state dirty.
ReduceSetMode_MarksDirty(s, a) ==
  [s EXCEPT !.present = [s.present EXCEPT !.mode = a.payload, !.isDirty = TRUE]]

ReduceSetMode(s, a) ==
  [s EXCEPT !.present = [s.present EXCEPT !.mode = a.payload]]

ReduceSetErrors(s, a) ==
  [s EXCEPT !.present = [s.present EXCEPT !.errors = a.payload]]

\* Variant of ReduceSetDirty that writes the flag into the stored
\* snapshots too.
ReduceSetDirty_RewritesPast(s, a) ==
  [s EXCEPT !.present = [s.present EXCEPT !.isDirty = a.payload],
            !.past = [i \in 1..Len(s.past) |->
                        [s.past[i] EXCEPT !.isDirty = a.payload]]]

ReduceSetDirty(s, a) ==
  [s EXCEPT !.present = [s.present EXCEPT !.isDirty = a.payload]]

\* Variant of ReduceUndo that does not keep the old present for redo.
ReduceUndo_KeepsFuture(s) ==
  IF Len(s.past) = 0 THEN s
  ELSE [present |-> s.past[Len(s.past)],
        past    |-> SubSeq(s.past, 1, Len(s.past) - 1),
        future  |-> s.future]

\* Variant of ReduceUndo that puts the old present behind the future entries.
ReduceUndo_AppendsFuture(s) ==
  IF Len(s.past) = 0 THEN s
  ELSE [present |-> s.past[Len(s.past)],
        past    |-> SubSeq(s.past, 1, Len(s.past) - 1),
        future  |-> Append(s.future, s.present)]

\* Variant of ReduceUndo that restores the schema of the snapshot only.
ReduceUndo_SchemaOnly(s) ==
  IF Len(s.past) = 0 THEN s
  ELSE LET previous == s.past[Len(s.past)]
           newPast  == SubSeq(s.past, 1, Len(s.past) - 1)
       IN [present |-> [s.present EXCEPT !.schema = previous.schema],
           past    |-> newPast,
           future  |-> <<s.present>> \o s.future]

ReduceUndo(s) ==
  IF Len(s.past) = 0 THEN s
  ELSE LET previous == s.past[Len(s.past)]
           newPast  == SubSeq(s.past, 1, Len(s.past) - 1)
       IN [present |-> previous,
           past    |-> newPast,
           future  |-> <<s.present>> \o s.future]

\* Variant of ReduceRedo without the guard on an empty future: present stays
\* and is pushed onto past all the same.
ReduceRedo_NoGuard(s) ==
  [present |-> IF Len(s.future) = 0 THEN s.present ELSE s.future[1],
   past    |-> Append(s.past, s.present),
   future  |-> IF Len(s.future) = 0 THEN <<>> ELSE SubSeq(s.future, 2, Len(s.future))]

\* Variant of ReduceRedo that takes the last entry of future.
ReduceRedo_TakesLast(s) ==
  IF Len(s.future) = 0 THEN s
  ELSE [present |-> s.future[Len(s.future)],
        past    |-> Append(s.past, s.present),
        future  |-> SubSeq(s.future, 1, Len(s.future) - 1)]

\* Variant of ReduceRedo that does not push the old present onto past.
ReduceRedo_KeepsPast(s) ==
  IF Len(s.future) = 0 THEN s
  ELSE [present |-> s.future[1],
        past    |-> s.past,
        future  |-> SubSeq(s.future, 2, Len(s.future))]

ReduceRedo(s) ==
  IF Len(s.future) = 0 THEN s
  ELSE LET next      == s.future[1]
           newFuture == SubSeq(s.future, 2, Len(s.future))
       IN [present |-> next,
           past    |-> Append(s.past, s.present),
           future  |-> newFuture]

\* Variant of ReduceClearHistory that empties past only.
ReduceClearHistory_KeepsFuture(s) ==
  [s EXCEPT !.past = <<>>]

ReduceClearHistory(s) ==
  [s EXCEPT !.past = <<>>, !.future = <<>>]

editorReducer(s, a) ==
  CASE a.type = "SET_SCHEMA"             -> ReduceSetSchema(s, a)
    [] a.type = "UPDATE_SCHEMA_METADATA" -> ReduceUpdateSchemaMetadata(s, a)
    [] a.type = "UPDATE_CONTROL"         -> ReduceUpdateControl(s, a)
    [] a.type = "ADD_CONTROL"            -> ReduceAddControl(s, a)
    [] a.type = "REMOVE_CONTROL"         -> ReduceRemoveControl(s, a)
    [] a.type = "REORDER_CONTROLS"       -> ReduceReorderControls(s, a)
    [] a.type = "SELECT_CONTROL"         -> ReduceSelectControl(s, a)
    [] a.type = "SET_MODE"               -> ReduceSetMode(s, a)
    [] a.type = "SET_ERRORS"             -> ReduceSetErrors(s, a)
    [] a.type = "SET_DIRTY"              -> ReduceSetDirty(s, a)
    [] a.type = "UNDO"                   -> ReduceUndo(s)
    [] a.type = "REDO"                   -> ReduceRedo(s)
    [] a.type = "CLEAR_HISTORY"          -> ReduceClearHistory(s)
    [] OTHER                             -> s

\* EditorProvider: the derived flags of the context value.
canUndo == Len(state.past) > 0

\* Variant of canRedo that looks at past.
canRedo_FromPast == Len(state.past) > 0

canRedo == Len(state.future) > 0

(***************************************************************************)
(* useEditorActions.addControl: the control the hook synthesizes.          *)
(***************************************************************************)
defaultOptions ==
  <<[label |-> <<"O", "p", "t", "i", "o", "n", " ", "1">>,
     value |-> <<"o", "p", "t", "i", "o", "n", "1">>],
    [label |-> <<"O", "p", "t", "i", "o", "n", " ", "2">>,
     value |-> <<"o", "p", "t", "i", "o", "n", "2">>]>>

\* `ctrl_${Date.now()}_${Math.random().toString(36).substring(2, 11)}`
NewControlId(t, suffix) ==
  <<"c", "t", "r", "l", "_">> \o Digits(t) \o <<"_">> \o suffix

\* `${type.charAt(0).toUpperCase() + type.slice(1)} Field`
NewControlLabel(type) ==
  <<ToUpperCase(Head(TypeChars(type)))>> \o Tail(TypeChars(type))
    \o <<" ", "F", "i", "e", "l", "d">>

\* Variant of NewControlName that puts the clock reading first.
NewControlName_TimeFirst(type, t) ==
  Digits(t) \o <<"_">> \o TypeChars(type) \o <<"F", "i", "e", "l", "d">>

\* `${type}Field_${Date.now()}`
NewControlName(type, t) ==
  TypeChars(type) \o <<"F", "i", "e", "l", "d", "_">> \o Digits(t)

\* Variant of NewControl that gives the default options to every kind.
NewControl_OptionsForAll(type, t1, suffix, t2) ==
  [id       |-> NewControlId(t1, suffix),
   type     |-> type,
   label    |-> NewControlLabel(type),
   name     |-> NewControlName(type, t2),
   required |-> FALSE,
   options  |-> defaultOptions]

\* t1 and t2 are the two readings of Date.now(), suffix the random part.
NewControl(type, t1, suffix, t2) ==
  LET newControl == [id       |-> NewControlId(t1, suffix),
                     type     |-> type,
                     label    |-> NewControlLabel(type),
                     name     |-> NewControlName(type, t2),
                     required |-> FALSE]
  IN IF type = "select"
     THEN Spread(newControl, [options |-> defaultOptions])
     ELSE newControl

\* Results of Math.random().toString(36).substring(2, 11) the model draws from.
RandomSuffixes == {<<"a">>, <<"b", "7">>}

(***************************************************************************)
(* Payloads the commands are dispatched with.                              *)
(***************************************************************************)
control2 ==
  [id    |-> <<"c", "2">>,
   type  |-> "email",
   label |-> <<"E", "m", "a", "i", "l">>,
   name  |-> <<"e", "m", "a", "i", "l">>]

updatedControl ==
  [sampleControl EXCEPT !.label = <<"U", "p", "d">>, !.required = FALSE]

nonExistentId == <<"n", "o", "n", "e">>

nonExistentControl ==
  [id    |-> nonExistentId,
   type  |-> "text",
   label |-> <<"N", "o", "n", "e">>,
   name  |-> <<"n", "o", "n", "E">>]

newSchema ==
  [layout |-> "horizontal", controls |-> <<control2, sampleControl>>]

SchemaPayloads == {newSchema}

MetadataPayloads == {[title |-> <<"U", "p", "d">>, layout |-> "grid"]}

\* The reducer takes the id to look for and the replacing control as two
\* independent parts of the payload; the third payload names one control
\* and carries another.
UpdateControlPayloads ==
  {[controlId |-> sampleControl.id, control |-> updatedControl],
   [controlId |-> nonExistentId, control |-> nonExistentControl],
   [controlId |-> sampleControl.id, control |-> control2]}

AddControlPayloads == {sampleControl}

ControlIdPayloads == {sampleControl.id, nonExistentId}

Reverse(seq) == [i \in 1..Len(seq) |-> seq[Len(seq) + 1 - i]]

\* The current controls in another order, and the empty list, which is
\* given whatever the current controls are.
ReorderPayloads(s) == {Reverse(s.present.schema.controls), <<>>}

SelectPayloads == {Null, Some(sampleControl.id)}

ModePayloads == {"visual", "json"}

sampleError ==
  [type      |-> "control",
   controlId |-> sampleControl.id,
   field     |-> "name",
   message   |-> "Name is required",
   severity  |-> "error"]

ErrorsPayloads == {<<>>, <<sampleError>>}

StructuralTypes ==
  {"SET_SCHEMA", "UPDATE_SCHEMA_METADATA", "UPDATE_CONTROL", "ADD_CONTROL",
   "REMOVE_CONTROL", "REORDER_CONTROLS"}

(***************************************************************************)
(* The store: one dispatch is one step.  prev, lastAction and lastCall     *)
(* record the step just taken (the state before it, the action dispatched  *)
(* and the hook call that built it), trail the states gone through by the  *)
(* latest run of consecutive structural commands.  mutated tells whether a *)
(* structural command has been applied since the last SET_DIRTY(false).    *)
(* rendered is the control prop the properties panel was last rendered     *)
(* with, checked the latest call of a validator with its result.           *)
(***************************************************************************)
Dispatch(a) ==
  /\ steps < MaxSteps
  /\ state' = editorReducer(state, a)
  /\ prev' = state
  /\ lastAction' = a
  /\ steps' = steps + 1
  /\ trail' = IF a.type \in StructuralTypes
              THEN Append(trail, editorReducer(state, a))
              ELSE <<editorReducer(state, a)>>
  /\ mutated' = IF a.type \in StructuralTypes THEN TRUE
                ELSE IF a.type = "SET_DIRTY" /\ a.payload = FALSE THEN FALSE
                ELSE mutated
  /\ UNCHANGED <<rendered, checked>>

Direct == /\ lastCall' = [op |-> "dispatch"]
          /\ UNCHANGED now

Init ==
  /\ state = initialState(defaultSchema)
  /\ now = 0
  /\ steps = 0
  /\ prev = state
  /\ lastAction = [type |-> "INIT"]
  /\ lastCall = [op |-> "init"]
  /\ trail = <<state>>
  /\ mutated = FALSE
  /\ rendered = Null
  /\ checked = [fn |-> "none"]

setSchema ==
  \E p \in SchemaPayloads : Dispatch([type |-> "SET_SCHEMA", payload |-> p]) /\ Direct

updateSchemaMetadata ==
  \E p \in MetadataPayloads :
     Dispatch([type |-> "UPDATE_SCHEMA_METADATA", payload |-> p]) /\ Direct

updateControl ==
  \E p \in UpdateControlPayloads :
     Dispatch([type |-> "UPDATE_CONTROL", payload |-> p]) /\ Direct

dispatchAddControl ==
  \E p \in AddControlPayloads : Dispatch([type |-> "ADD_CONTROL", payload |-> p]) /\ Direct

removeControl ==
  \E p \in ControlIdPayloads : Dispatch([type |-> "REMOVE_CONTROL", payload |-> p]) /\ Direct

reorderControls ==
  \E p \in ReorderPayloads(state) :
     Dispatch([type |-> "REORDER_CONTROLS", payload |-> p]) /\ Direct

selectControl ==
  \E p \in SelectPayloads : Dispatch([type |-> "SELECT_CONTROL", payload |-> p]) /\ Direct

setMode ==
  \E p \in ModePayloads : Dispatch([type |-> "SET_MODE", payload |-> p]) /\ Direct

setErrors ==
  \E p \in ErrorsPayloads : Dispatch([type |-> "SET_ERRORS", payload |-> p]) /\ Direct

setDirty ==
  \E p \in BOOLEAN : Dispatch([type |-> "SET_DIRTY", payload |-> p]) /\ Direct

undo == Dispatch([type |-> "UNDO"]) /\ Direct

redo == Dispatch([type |-> "REDO"]) /\ Direct

clearHistory == Dispatch([type |-> "CLEAR_HISTORY"]) /\ Direct

Next ==
  \/ setSchema
  \/ updateSchemaMetadata
  \/ updateControl
  \/ dispatchAddControl
  \/ removeControl
  \/ reorderControls
  \/ selectControl
  \/ setMode
  \/ setErrors
  \/ setDirty
  \/ undo
  \/ redo
  \/ clearHistory

Spec == Init /\ [][Next]_vars

(***************************************************************************)
(* The palette and the canvas: controls are added by the hook's            *)
(* addControl, which reads the clock twice and draws a random suffix, and  *)
(* removed by the canvas item's remove button.                             *)
(***************************************************************************)
\* The kinds the model clicks in the palette.
PaletteTypes == {"text", "select"}

addControl ==
  \E type \in PaletteTypes, suffix \in RandomSuffixes, t2 \in {now, now + 1} :
     /\ steps < MaxPaletteSteps
     /\ t2 <= MaxClock
     /\ Len(state.present.schema.controls) < MaxControls
     /\ Dispatch([type |-> "ADD_CONTROL", payload |-> NewControl(type, now, suffix, t2)])
     /\ lastCall' = [op |-> "addControl", type |-> type]
     /\ now' = t2

handleControlRemove ==
  \E i \in 1..Len(state.present.schema.controls) :
     /\ steps < MaxPaletteSteps
     /\ Dispatch([type |-> "REMOVE_CONTROL", payload |-> state.present.schema.controls[i].id])
     /\ Direct

\* Time passes between two commands.
tick ==
  /\ now < MaxClock
  /\ now' = now + 1
  /\ UNCHANGED <<state, steps, prev, lastAction, lastCall, trail, mutated,
               rendered, checked>>

PaletteNext ==
  \/ addControl
  \/ handleControlRemove
  \/ undo
  \/ redo
  \/ tick

PaletteSpec == Init /\ [][PaletteNext]_vars

\* The palette with each of its eight kinds: a short session in which any
\* kind is added, with any suffix, the empty one included ("0" is all that
\* Math.random() = 0 gives, and substring(2) of it is empty).
MaxKindSteps == 2

addControlOfKind ==
  \E type \in ControlTypes, suffix \in RandomSuffixes \cup {<<>>}, t2 \in {now, now + 1} :
     /\ steps < MaxKindSteps
     /\ t2 <= MaxClock
     /\ Dispatch([type |-> "ADD_CONTROL", payload |-> NewControl(type, now, suffix, t2)])
     /\ lastCall' = [op |-> "addControl", type |-> type]
     /\ now' = t2

KindsNext ==
  \/ addControlOfKind
  \/ tick

KindsSpec == Init /\ [][KindsNext]_vars

(***************************************************************************)
(* JavaScript values of any type: a record tagged with its kind.  A string *)
(* holds its characters, an array its elements, an object a record from    *)
(* keys to values.                                                         *)
(***************************************************************************)
Undefined == [k |-> "undefined"]

JsNull == [k |-> "null"]

Str(chars) == [k |-> "string", v |-> chars]

Num(n) == [k |-> "number", v |-> n]

Bool(b) == [k |-> "boolean", v |-> b]

Arr(elems) == [k |-> "array", v |-> elems]

Obj(fields) == [k |-> "object", v |-> fields]

(***************************************************************************)
(* The properties panel: the selected control is edited through            *)
(* handlePropertyChange and the option handlers, each of which dispatches  *)
(* UPDATE_CONTROL with the control's own id.  A field the code sets to     *)
(* undefined is a key the record lacks.                                    *)
(***************************************************************************)
MaxOptions == 3

\* The commands of a session with the panel.
MaxPanelSteps == 3

\* useEditorState().selectedControl: the first control with the selected
\* id, or null.
selectedControl(s) ==
  LET controls == s.present.schema.controls
      hits == {i \in 1..Len(controls) : Some(controls[i].id) = s.present.selectedControlId}
      \* selectedControlId ? ... : null -- null and '' are falsy
      truthy == s.present.selectedControlId \notin {Null, Some(<<>>)}
  IN IF ~truthy \/ hits = {} THEN Null
     ELSE Some(controls[CHOOSE i \in hits : \A j \in hits : i <= j])

\* The control prop of the panel: the selected control as of the last
\* render.
PanelControl == rendered

Without(r, k) == [x \in DOMAIN r \ {k} |-> r[x]]

\* control?.options || []
currentOptions(control) ==
  IF "options" \in DOMAIN control THEN control.options ELSE <<>>

\* The control handleOptionsChange dispatches.
handleOptionsChange(control, options) ==
  IF Len(options) = 0 THEN Without(control, "options")
  ELSE Spread(control, [options |-> options])

\* `Option ${n + 1}` / `option_${n + 1}`
NewOption(n) ==
  [label |-> <<"O", "p", "t", "i", "o", "n", " ">> \o Digits(n + 1),
   value |-> <<"o", "p", "t", "i", "o", "n", "_">> \o Digits(n + 1)]

controlSupportsOptions(control) == control.type = "select"

\* The values typed into the label input and an option input.
LabelInputs == {<<"L">>}

OptionInputs == {<<"X">>}

PanelOps ==
  {"handlePropertyChange", "handleValidationChange", "addOption", "removeOption",
   "updateOption"}

\* lastCall keeps the handler, the control and the property it edits, and
\* the call before it.
PanelUpdate(op, property, control, updated) ==
  /\ steps < MaxPanelSteps
  /\ Dispatch([type |-> "UPDATE_CONTROL",
               payload |-> [controlId |-> control.id, control |-> updated]])
  /\ lastCall' = [op |-> op, id |-> control.id, property |-> property,
                  previous |-> Without(lastCall, "previous")]
  /\ UNCHANGED now

\* The panel is rendered again with the selected control of the store.
render ==
  /\ rendered /= selectedControl(state)
  /\ rendered' = selectedControl(state)
  /\ UNCHANGED <<state, now, steps, prev, lastAction, lastCall, trail, mutated, checked>>

handlePropertyChange ==
  /\ PanelControl /= Null
  /\ LET control == PanelControl[1]
     IN \/ \E value \in LabelInputs :
             PanelUpdate("handlePropertyChange", "label", control,
                         Spread(control, [label |-> value]))
        \/ \E isChecked \in BOOLEAN :
             \* handlePropertyChange('required', e.target.checked || undefined)
             PanelUpdate("handlePropertyChange", "required", control,
                         IF isChecked THEN Spread(control, [required |-> TRUE])
                         ELSE Without(control, "required"))

addOption ==
  /\ PanelControl /= Null
  /\ LET control == PanelControl[1]
         options == currentOptions(control)
     IN /\ controlSupportsOptions(control)
        /\ Len(options) < MaxOptions
        /\ PanelUpdate("addOption", "options", control,
                       handleOptionsChange(control, Append(options, NewOption(Len(options)))))

removeOption ==
  /\ PanelControl /= Null
  /\ LET control == PanelControl[1]
         options == currentOptions(control)
     IN /\ controlSupportsOptions(control)
        /\ \E index \in 1..Len(options) :
              PanelUpdate("removeOption", "options", control,
                          handleOptionsChange(control,
                             SubSeq(options, 1, index - 1)
                               \o SubSeq(options, index + 1, Len(options))))

updateOption ==
  /\ PanelControl /= Null
  /\ LET control == PanelControl[1]
         options == currentOptions(control)
     IN /\ controlSupportsOptions(control)
        /\ \E index \in 1..Len(options), field \in {"label", "value"}, value \in OptionInputs :
              PanelUpdate("updateOption", "options", control,
                          handleOptionsChange(control,
                             [i \in 1..Len(options) |->
                                IF i = index
                                THEN Spread(options[i],
                                            IF field = "label" THEN [label |-> value]
                                            ELSE [value |-> value])
                                ELSE options[i]]))

controlSupportsValidation(control) ==
  control.type \in {"text", "email", "password", "textarea", "number"}

\* The rules edited in the model, and what their inputs give the handler:
\* e.target.value ? parseInt(e.target.value) : undefined
RuleInputs == {"minLength", "maxLength"}

RuleValues == {Undefined, Num(1)}

\* { ...control.validation }: no key when validation is undefined.
validationOf(control) ==
  IF "validation" \in DOMAIN control THEN control.validation
  ELSE [rule \in {} |-> Undefined]

\* control.validation is a record from rule to value; a rule the code sets
\* to undefined is a key that is there with the value undefined, which
\* Object.keys counts.
handleValidationChange ==
  /\ PanelControl /= Null
  /\ LET control == PanelControl[1]
     IN /\ controlSupportsValidation(control)
        /\ \E rule \in RuleInputs, value \in RuleValues :
             LET updatedValidation ==
                   Spread(validationOf(control),
                          [r \in {rule} |-> IF value = Str(<<>>) THEN Undefined ELSE value])
                 cleanValidation ==
                   IF Cardinality(DOMAIN updatedValidation) = 0 THEN Undefined
                   ELSE Obj(updatedValidation)
             IN PanelUpdate("handleValidationChange", rule, control,
                            IF cleanValidation = Undefined
                            THEN Without(control, "validation")
                            ELSE Spread(control, [validation |-> updatedValidation]))

PanelNext ==
  \/ steps < MaxPanelSteps /\ addControl
  \/ render
  \/ handlePropertyChange
  \/ handleValidationChange
  \/ addOption
  \/ removeOption
  \/ updateOption

PanelSpec == Init /\ [][PanelNext]_vars

(***************************************************************************)
(* The form canvas: a schema is loaded through setSchema, a control is     *)
(* selected by a click on its item, removed by its remove button and moved *)
(* by drag and drop.  The canvas hands the reordered list to               *)
(* onControlsReorder, which is the hook's reorderControls.                 *)
(***************************************************************************)
\* The commands of a session with the canvas.
MaxCanvasSteps == 4

\* A control of an imported schema whose id is the empty string.
blankControl ==
  [id    |-> <<>>,
   type  |-> "text",
   label |-> <<"B">>,
   name  |-> <<"b">>]

importedSchema ==
  [layout |-> "vertical", controls |-> <<blankControl, sampleControl, control2>>]

loadSchema ==
  /\ steps < MaxCanvasSteps
  /\ Dispatch([type |-> "SET_SCHEMA", payload |-> importedSchema])
  /\ lastCall' = [op |-> "setSchema"]
  /\ UNCHANGED now

\* onClick={() => onSelect(control.id)}
handleControlSelect ==
  \E i \in 1..Len(state.present.schema.controls) :
     /\ steps < MaxCanvasSteps
     /\ Dispatch([type |-> "SELECT_CONTROL",
                  payload |-> Some(state.present.schema.controls[i].id)])
     /\ lastCall' = [op |-> "onSelect", index |-> i]
     /\ UNCHANGED now

\* selectControl(null)
clearSelection ==
  /\ steps < MaxCanvasSteps
  /\ Dispatch([type |-> "SELECT_CONTROL", payload |-> Null])
  /\ lastCall' = [op |-> "selectControl"]
  /\ UNCHANGED now

\* array.splice(index, 1) and array.splice(index, 0, item), index from 0.
SpliceOut(array, index) ==
  SubSeq(array, 1, index) \o SubSeq(array, index + 2, Len(array))

SpliceIn(array, index, item) ==
  LET start == IF index > Len(array) THEN Len(array) ELSE index
  IN SubSeq(array, 1, start) \o <<item>> \o SubSeq(array, start + 1, Len(array))

\* Variant of reorderedControls that swaps the two controls.
reorderedControls_Swaps(controls, sourceIndex, destinationIndex) ==
  [i \in 1..Len(controls) |->
     IF i = sourceIndex + 1 THEN controls[destinationIndex + 1]
     ELSE IF i = destinationIndex + 1 THEN controls[sourceIndex + 1]
     ELSE controls[i]]

\* The list handleDragEnd gives to onControlsReorder.
reorderedControls(controls, sourceIndex, destinationIndex) ==
  SpliceIn(SpliceOut(controls, sourceIndex), destinationIndex,
           controls[sourceIndex + 1])

\* result.source.index is the index of a rendered item; result.destination
\* is null for a drop outside the list, else an index of the same list.
handleDragEnd ==
  LET controls == state.present.schema.controls
  IN \E sourceIndex \in 0..(Len(controls) - 1) :
       \/ \E destination \in {Null} \cup {Some(j) : j \in 0..(Len(controls) - 1)} :
            /\ IF destination = Null THEN TRUE ELSE destination[1] = sourceIndex
            /\ steps < MaxCanvasSteps
            /\ lastCall' = [op |-> "handleDragEnd", controls |-> controls,
                            sourceIndex |-> sourceIndex, destination |-> destination,
                            emitted |-> Null]
            /\ steps' = steps + 1
            /\ UNCHANGED <<state, now, prev, lastAction, trail, mutated, rendered, checked>>
       \/ \E destinationIndex \in 0..(Len(controls) - 1) :
            /\ destinationIndex /= sourceIndex
            /\ steps < MaxCanvasSteps
            /\ Dispatch([type |-> "REORDER_CONTROLS",
                         payload |-> reorderedControls(controls, sourceIndex, destinationIndex)])
            /\ lastCall' = [op |-> "handleDragEnd", controls |-> controls,
                            sourceIndex |-> sourceIndex,
                            destination |-> Some(destinationIndex),
                            emitted |-> Some(reorderedControls(controls, sourceIndex,
                                                               destinationIndex))]
            /\ UNCHANGED now

CanvasNext ==
  \/ loadSchema
  \/ handleControlSelect
  \/ handleDragEnd
  \/ steps < MaxCanvasSteps /\ handleControlRemove
  \/ steps < MaxCanvasSteps /\ undo
  \/ steps < MaxCanvasSteps /\ redo

CanvasSpec == Init /\ [][CanvasNext]_vars

\* The palette and the canvas with selection: the only structural commands
\* are add-control and remove-control, and only a control of the present
\* schema, or none, is selected.
SelectionNext ==
  \/ steps < MaxCanvasSteps + 1 /\ addControl
  \/ handleControlSelect
  \/ clearSelection
  \/ steps < MaxCanvasSteps + 1 /\ handleControlRemove
  \/ steps < MaxCanvasSteps + 1 /\ undo
  \/ steps < MaxCanvasSteps + 1 /\ redo

SelectionSpec == Init /\ [][SelectionNext]_vars

(***************************************************************************)
(* schemaValidator.  Its inputs are of type unknown, so a JavaScript value *)
(* is a record tagged with its kind: a string holds its characters, an     *)
(* array its elements, an object a record from keys to values.  A parse of *)
(* a zod schema yields a status (valid, dirty: a check failed, aborted: a  *)
(* type failed) and the issues in the order they were raised.  A message   *)
(* is a sequence of string pieces.                                         *)
(***************************************************************************)
\* data[key]: undefined for a key the object lacks.
Get(o, key) == IF key \in DOMAIN o.v THEN o.v[key] ELSE Undefined

\* JavaScript truthiness of a value.
Truthy(x) ==
  CASE x.k = "undefined" -> FALSE
    [] x.k = "null"      -> FALSE
    [] x.k = "string"    -> x.v /= <<>>
    [] x.k = "number"    -> x.v /= 0
    [] x.k = "boolean"   -> x.v
    [] OTHER             -> TRUE

Issue(path, message) == [path |-> path, message |-> message]

Parsed(status, issues) == [status |-> status, issues |-> issues]

\* ParseStatus.mergeArray / mergeObjectSync
MergeStatus(statuses) ==
  IF "aborted" \in statuses THEN "aborted"
  ELSE IF "dirty" \in statuses THEN "dirty"
  ELSE "valid"

RECURSIVE Flatten(_)
Flatten(seqs) ==
  IF seqs = <<>> THEN <<>> ELSE Head(seqs) \o Flatten(Tail(seqs))

Merge(parts) ==
  Parsed(MergeStatus({parts[i].status : i \in 1..Len(parts)}),
         Flatten([i \in 1..Len(parts) |-> parts[i].issues]))

\* schema.optional()
Optional(x, parsed) == IF x.k = "undefined" THEN Parsed("valid", <<>>) ELSE parsed

\* schema.refine(check, { message, path }): the check runs unless the
\* inner parse was aborted.
Refine(inner, holds, path, message) ==
  IF inner.status = "aborted" THEN inner
  ELSE IF holds THEN inner
  ELSE Parsed("dirty", Append(inner.issues, Issue(path, <<message>>)))

Letters ==
  {"a", "b", "c", "d", "e", "f", "g", "h", "i", "j", "k", "l", "m",
   "n", "o", "p", "q", "r", "s", "t", "u", "v", "w", "x", "y", "z"}

UpperLetters ==
  {"A", "B", "C", "D", "E", "F", "G", "H", "I", "J", "K", "L", "M",
   "N", "O", "P", "Q", "R", "S", "T", "U", "V", "W", "X", "Y", "Z"}

\* /^[a-zA-Z_][a-zA-Z0-9_]*$/
IsIdentifier(chars) ==
  LET letter(ch) == ch \in Letters \/ ch \in UpperLetters \/ ch = "_"
      digit(ch)  == \E d \in 1..10 : DigitChar[d] = ch
  IN /\ Len(chars) >= 1
     /\ letter(chars[1])
     /\ \A i \in 2..Len(chars) : letter(chars[i]) \/ digit(chars[i])

\* z.string() with the checks .min(1, minMessage) and .regex(identifier,
\* regexMessage); a message of "" stands for a check the schema lacks.
ZodString(x, path, minMessage, regexMessage) ==
  IF x.k /= "string" THEN Parsed("aborted", <<Issue(path, <<"invalid_type">>)>>)
  ELSE LET tooSmall == minMessage /= "" /\ Len(x.v) < 1
           noMatch  == regexMessage /= "" /\ ~IsIdentifier(x.v)
           issues   == (IF tooSmall THEN <<Issue(path, <<minMessage>>)>> ELSE <<>>)
                         \o (IF noMatch THEN <<Issue(path, <<regexMessage>>)>> ELSE <<>>)
       IN Parsed(IF issues = <<>> THEN "valid" ELSE "dirty", issues)

\* z.number(), with .min(0) when nonNegative
ZodNumber(x, path, nonNegative) ==
  IF x.k /= "number" THEN Parsed("aborted", <<Issue(path, <<"invalid_type">>)>>)
  ELSE IF nonNegative /\ x.v < 0 THEN Parsed("dirty", <<Issue(path, <<"too_small">>)>>)
  ELSE Parsed("valid", <<>>)

ZodBoolean(x, path) ==
  IF x.k /= "boolean" THEN Parsed("aborted", <<Issue(path, <<"invalid_type">>)>>)
  ELSE Parsed("valid", <<>>)

\* z.enum(values), values given by their characters
ZodEnum(x, path, values) ==
  IF x.k /= "string" THEN Parsed("aborted", <<Issue(path, <<"invalid_type">>)>>)
  ELSE IF x.v \notin values
       THEN Parsed("aborted", <<Issue(path, <<"invalid_enum_value">>)>>)
  ELSE Parsed("valid", <<>>)

LayoutChars(layout) ==
  CASE layout = "vertical"   -> <<"v", "e", "r", "t", "i", "c", "a", "l">>
    [] layout = "horizontal" -> <<"h", "o", "r", "i", "z", "o", "n", "t", "a", "l">>
    [] layout = "grid"       -> <<"g", "r", "i", "d">>

LayoutTypes == {"vertical", "horizontal", "grid"}

ControlTypeSchema(x, path) == ZodEnum(x, path, {TypeChars(type) : type \in ControlTypes})

LayoutTypeSchema(x, path) == ZodEnum(x, path, {LayoutChars(layout) : layout \in LayoutTypes})

\* z.object: a value that is not an object aborts the parse; otherwise
\* the fields are parsed in the order of the shape and unknown keys are
\* dropped.
NotAnObject(path) == Parsed("aborted", <<Issue(path, <<"invalid_type">>)>>)

SelectOptionSchema(x, path) ==
  IF x.k /= "object" THEN NotAnObject(path)
  ELSE Merge(<<ZodString(Get(x, "label"), path \o <<"label">>,
                         "Option label cannot be empty", ""),
               ZodString(Get(x, "value"), path \o <<"value">>,
                         "Option value cannot be empty", "")>>)

\* z.array(SelectOptionSchema); index i of the array is path piece i - 1.
OptionsSchema(x, path) ==
  IF x.k /= "array" THEN Parsed("aborted", <<Issue(path, <<"invalid_type">>)>>)
  ELSE Merge([i \in 1..Len(x.v) |-> SelectOptionSchema(x.v[i], path \o <<ToString(i - 1)>>)])

\* Variant of Ordered that asks for lower < upper.
Ordered_Strict(lower, upper) ==
  (lower.k /= "undefined" /\ upper.k /= "undefined") => lower.v < upper.v

\* if (lower !== undefined && upper !== undefined) return lower <= upper;
\* return true
Ordered(lower, upper) ==
  (lower.k /= "undefined" /\ upper.k /= "undefined") => lower.v <= upper.v

ValidationRulesSchema(x, path) ==
  IF x.k /= "object" THEN NotAnObject(path)
  ELSE LET minLength == Get(x, "minLength")
           maxLength == Get(x, "maxLength")
           min       == Get(x, "min")
           max       == Get(x, "max")
           fields ==
             Merge(<<Optional(minLength, ZodNumber(minLength, path \o <<"minLength">>, TRUE)),
                     Optional(maxLength, ZodNumber(maxLength, path \o <<"maxLength">>, TRUE)),
                     Optional(Get(x, "pattern"),
                              ZodString(Get(x, "pattern"), path \o <<"pattern">>, "", "")),
                     Optional(min, ZodNumber(min, path \o <<"min">>, FALSE)),
                     Optional(max, ZodNumber(max, path \o <<"max">>, FALSE)),
                     Optional(Get(x, "customMessage"),
                              ZodString(Get(x, "customMessage"),
                                        path \o <<"customMessage">>, "", ""))>>)
           lengthsOrdered == Ordered(minLength, maxLength)
           boundsOrdered  == Ordered(min, max)
       IN Refine(Refine(fields, lengthsOrdered, path \o <<"minLength">>,
                        "minLength must be less than or equal to maxLength"),
                 boundsOrdered, path \o <<"min">>,
                 "min must be less than or equal to max")

\* Variant of NoOptions that looks only for a missing options field.
NoOptions_AbsentOnly(x) ==
  Get(x, "options").k = "undefined"

\* !data.options || data.options.length === 0
NoOptions(x) ==
  LET options == Get(x, "options") IN options.k = "undefined" \/ Len(options.v) = 0

UIControlSchema(x, path) ==
  IF x.k /= "object" THEN NotAnObject(path)
  ELSE LET fields ==
             Merge(<<ZodString(Get(x, "id"), path \o <<"id">>,
                               "Control ID cannot be empty", ""),
                     ControlTypeSchema(Get(x, "type"), path \o <<"type">>),
                     ZodString(Get(x, "label"), path \o <<"label">>,
                               "Control label cannot be empty", ""),
                     ZodString(Get(x, "name"), path \o <<"name">>,
                               "Control name cannot be empty",
                               "Control name must be a valid identifier"),
                     Optional(Get(x, "placeholder"),
                              ZodString(Get(x, "placeholder"), path \o <<"placeholder">>, "", "")),
                     Optional(Get(x, "required"),
                              ZodBoolean(Get(x, "required"), path \o <<"required">>)),
                     Optional(Get(x, "validation"),
                              ValidationRulesSchema(Get(x, "validation"),
                                                    path \o <<"validation">>)),
                     Optional(Get(x, "options"),
                              OptionsSchema(Get(x, "options"), path \o <<"options">>)),
                     Optional(Get(x, "className"),
                              ZodString(Get(x, "className"), path \o <<"className">>, "", ""))>>)
           isSelect == Get(x, "type").v = TypeChars("select")
       IN Refine(Refine(fields, ~(isSelect /\ NoOptions(x)), path \o <<"options">>,
                        "Select controls must have at least one option"),
                 ~(~isSelect /\ ~NoOptions(x)), path \o <<"options">>,
                 "Only select controls can have options")

\* z.array(UIControlSchema)
ControlsSchema(x, path) ==
  IF x.k /= "array" THEN Parsed("aborted", <<Issue(path, <<"invalid_type">>)>>)
  ELSE Merge([i \in 1..Len(x.v) |-> UIControlSchema(x.v[i], path \o <<ToString(i - 1)>>)])

\* ids.length === new Set(ids).size for the values of one key
AllDistinct(controls, key) ==
  Cardinality({Get(controls[i], key).v : i \in 1..Len(controls)}) = Len(controls)

UISchemaSchema(x, path) ==
  IF x.k /= "object" THEN NotAnObject(path)
  ELSE LET fields ==
             Merge(<<Optional(Get(x, "title"),
                              ZodString(Get(x, "title"), path \o <<"title">>, "", "")),
                     Optional(Get(x, "description"),
                              ZodString(Get(x, "description"), path \o <<"description">>, "", "")),
                     LayoutTypeSchema(Get(x, "layout"), path \o <<"layout">>),
                     ControlsSchema(Get(x, "controls"), path \o <<"controls">>)>>)
       IN Refine(Refine(fields, AllDistinct(Get(x, "controls").v, "id"),
                        path \o <<"controls">>, "Control IDs must be unique"),
                 AllDistinct(Get(x, "controls").v, "name"),
                 path \o <<"controls">>, "Control names must be unique")

\* issue.path.join('.')
RECURSIVE Join(_)
Join(path) ==
  IF path = <<>> THEN ""
  ELSE IF Len(path) = 1 THEN path[1]
  ELSE path[1] \o "." \o Join(Tail(path))

\* result.error.issues.map(issue => ({ type, field, message, severity }))
IssueErrors(type, issues) ==
  [i \in 1..Len(issues) |->
     [type     |-> type,
      field    |-> Join(issues[i].path),
      message  |-> issues[i].message,
      severity |-> "error"]]

ValidationResult(isValid, errors) == [isValid |-> isValid, errors |-> errors]

validateUISchema(schema) ==
  LET result == UISchemaSchema(schema, <<>>)
  IN IF result.status = "valid" THEN ValidationResult(TRUE, <<>>)
     ELSE ValidationResult(FALSE, IssueErrors("schema", result.issues))

\* The characters of a string literal.
Chars(str) == [i \in 1..Len(str) |-> SubSeq(str, i, i)]

\* String(value)
RECURSIVE StringOf(_)
StringOf(x) ==
  CASE x.k = "string"    -> x.v
    [] x.k = "number"    -> IF x.v < 0 THEN <<"-">> \o Digits(0 - x.v) ELSE Digits(x.v)
    [] x.k = "boolean"   -> IF x.v THEN Chars("true") ELSE Chars("false")
    [] x.k = "null"      -> Chars("null")
    [] x.k = "undefined" -> Chars("undefined")
    [] x.k = "object"    -> Chars("[object Object]")
    [] x.k = "array"     ->
         Flatten([i \in 1..Len(x.v) |->
                    (IF i > 1 THEN <<",">> ELSE <<>>)
                      \o (IF x.v[i].k \in {"null", "undefined"} THEN <<>>
                          ELSE StringOf(x.v[i]))])

\* existingControls.some(existing => existing[key] === validated[key])
\* Variant of Collides that compares with the first existing control only.
Collides_FirstOnly(existingControls, control, key) ==
  /\ existingControls /= <<>>
  /\ Get(existingControls[1], key) = Get(control, key)

Collides(existingControls, control, key) ==
  \E i \in 1..Len(existingControls) :
     Get(existingControls[i], key) = Get(control, key)

validateUIControl(control, existingControls) ==
  LET result == UIControlSchema(control, <<>>)
  IN IF result.status /= "valid"
     THEN ValidationResult(FALSE,
            [i \in 1..Len(result.issues) |->
               Spread([type     |-> "control",
                       field    |-> Join(result.issues[i].path),
                       message  |-> result.issues[i].message,
                       severity |-> "error"],
                      IF control.k = "object" /\ "id" \in DOMAIN control.v
                      THEN [controlId |-> StringOf(control.v.id)]
                      ELSE <<>>)])
     ELSE LET id   == Get(control, "id").v
              name == Get(control, "name").v
              additionalErrors ==
                (IF Collides(existingControls, control, "id")
                 THEN <<[type      |-> "control",
                         controlId |-> id,
                         field     |-> "id",
                         message   |-> <<"Control ID '">> \o id \o <<"' already exists">>,
                         severity  |-> "error"]>>
                 ELSE <<>>)
                \o
                (IF Collides(existingControls, control, "name")
                 THEN <<[type      |-> "control",
                         controlId |-> id,
                         field     |-> "name",
                         message   |-> <<"Control name '">> \o name \o <<"' already exists">>,
                         severity  |-> "error"]>>
                 ELSE <<>>)
          IN ValidationResult(Len(additionalErrors) = 0, additionalErrors)

\* Variant of validateValidationRules for which a warning makes the rules
\* invalid.
validateValidationRules_WarningsInvalid(rules, controlType) ==
  LET result == ValidationRulesSchema(rules, <<>>)
  IN IF result.status /= "valid"
     THEN ValidationResult(FALSE, IssueErrors("validation", result.issues))
     ELSE LET warnings ==
                (IF /\ controlType \in {"checkbox", "button"}
                    /\ \/ Truthy(Get(rules, "minLength"))
                       \/ Truthy(Get(rules, "maxLength"))
                       \/ Truthy(Get(rules, "pattern"))
                 THEN <<[type     |-> "validation",
                         field    |-> "validation",
                         message  |-> <<"String validation rules are not applicable to ",
                                        controlType, " controls">>,
                         severity |-> "warning"]>>
                 ELSE <<>>)
                \o
                (IF /\ controlType /= "number"
                    /\ \/ Get(rules, "min").k /= "undefined"
                       \/ Get(rules, "max").k /= "undefined"
                 THEN <<[type     |-> "validation",
                         field    |-> "validation",
                         message  |-> <<"Numeric validation rules are only applicable to number controls">>,
                         severity |-> "warning"]>>
                 ELSE <<>>)
          IN ValidationResult(Len(warnings) = 0, warnings)

validateValidationRules(rules, controlType) ==
  LET result == ValidationRulesSchema(rules, <<>>)
  IN IF result.status /= "valid"
     THEN ValidationResult(FALSE, IssueErrors("validation", result.issues))
     ELSE LET warnings ==
                (IF /\ controlType \in {"checkbox", "button"}
                    /\ \/ Truthy(Get(rules, "minLength"))
                       \/ Truthy(Get(rules, "maxLength"))
                       \/ Truthy(Get(rules, "pattern"))
                 THEN <<[type     |-> "validation",
                         field    |-> "validation",
                         message  |-> <<"String validation rules are not applicable to ",
                                        controlType, " controls">>,
                         severity |-> "warning"]>>
                 ELSE <<>>)
                \o
                (IF /\ controlType /= "number"
                    /\ \/ Get(rules, "min").k /= "undefined"
                       \/ Get(rules, "max").k /= "undefined"
                 THEN <<[type     |-> "validation",
                         field    |-> "validation",
                         message  |-> <<"Numeric validation rules are only applicable to number controls">>,
                         severity |-> "warning"]>>
                 ELSE <<>>)
          IN ValidationResult(TRUE, warnings)

hasValidationErrors(errors) ==
  \E i \in 1..Len(errors) : errors[i].severity = "error"

(***************************************************************************)
(* JSON.parse on texts without escape sequences, fractions and exponents.  *)
(* A parse step gives the value and the position after it, or the message *)
(* of the SyntaxError it throws.                                           *)
(***************************************************************************)
At(text, i) == IF i <= Len(text) THEN SubSeq(text, i, i) ELSE ""

Parsing(value, pos) == [ok |-> TRUE, value |-> value, pos |-> pos]

SyntaxError(text, i) ==
  [ok |-> FALSE,
   message |-> IF i > Len(text) THEN <<"Unexpected end of JSON input">>
               ELSE <<"Unexpected token ", At(text, i), " in JSON at position ">>
                      \o Digits(i - 1)]

RECURSIVE SkipSpaces(_, _)
SkipSpaces(text, i) ==
  IF At(text, i) = " " THEN SkipSpaces(text, i + 1) ELSE i

\* The position of the quote that closes a string whose characters start
\* at i; past the end when there is none.
RECURSIVE ClosingQuote(_, _)
ClosingQuote(text, i) ==
  IF i > Len(text) \/ At(text, i) = "\"" THEN i ELSE ClosingQuote(text, i + 1)

DigitValue(ch) == (CHOOSE d \in 1..10 : DigitChar[d] = ch) - 1

IsDigit(ch) == \E d \in 1..10 : DigitChar[d] = ch

\* The digits from position i on, read into the number acc.
RECURSIVE ParseDigits(_, _, _)
ParseDigits(text, i, acc) ==
  IF IsDigit(At(text, i)) THEN ParseDigits(text, i + 1, acc * 10 + DigitValue(At(text, i)))
  ELSE [value |-> acc, pos |-> i]

\* The object of the members read; of two members with one key the later
\* one stays.
ObjectOf(members) ==
  Obj([key \in {members[n].key : n \in 1..Len(members)} |->
         members[CHOOSE n \in 1..Len(members) :
                    /\ members[n].key = key
                    /\ \A m \in (n + 1)..Len(members) : members[m].key /= key].value])

RECURSIVE ParseValue(_, _)
RECURSIVE ParseElements(_, _, _)
RECURSIVE ParseMembers(_, _, _)

ParseLiteral(text, i, word, value) ==
  LET miss == {n \in 1..Len(word) : At(text, i + n - 1) /= SubSeq(word, n, n)}
  IN IF miss = {} THEN Parsing(value, i + Len(word))
     ELSE SyntaxError(text, i - 1 + CHOOSE n \in miss : \A m \in miss : n <= m)

ParseValue(text, start) ==
  LET i  == SkipSpaces(text, start)
      ch == At(text, i)
  IN CASE ch = "{" -> ParseMembers(text, i + 1, <<>>)
       [] ch = "[" -> ParseElements(text, i + 1, <<>>)
       [] ch = "\"" ->
            LET j == ClosingQuote(text, i + 1)
            IN IF j > Len(text) THEN SyntaxError(text, j)
               ELSE Parsing(Str([n \in 1..(j - i - 1) |-> At(text, i + n)]), j + 1)
       [] ch = "-" ->
            IF IsDigit(At(text, i + 1))
            THEN LET number == ParseDigits(text, i + 1, 0)
                 IN Parsing(Num(0 - number.value), number.pos)
            ELSE SyntaxError(text, i + 1)
       [] IsDigit(ch) ->
            LET number == ParseDigits(text, i, 0)
            IN Parsing(Num(number.value), number.pos)
       [] ch = "t" -> ParseLiteral(text, i, "true", Bool(TRUE))
       [] ch = "f" -> ParseLiteral(text, i, "false", Bool(FALSE))
       [] ch = "n" -> ParseLiteral(text, i, "null", JsNull)
       [] OTHER -> SyntaxError(text, i)

\* After "[" or after a comma of an array.
ParseElements(text, start, elems) ==
  LET i == SkipSpaces(text, start)
  IN IF At(text, i) = "]" /\ elems = <<>> THEN Parsing(Arr(<<>>), i + 1)
     ELSE LET element == ParseValue(text, i)
          IN IF ~element.ok THEN element
             ELSE LET j == SkipSpaces(text, element.pos)
                  IN CASE At(text, j) = "," ->
                            ParseElements(text, j + 1, Append(elems, element.value))
                       [] At(text, j) = "]" ->
                            Parsing(Arr(Append(elems, element.value)), j + 1)
                       [] OTHER -> SyntaxError(text, j)

\* After "{" or after a comma of an object.
ParseMembers(text, start, members) ==
  LET i == SkipSpaces(text, start)
  IN IF At(text, i) = "}" /\ members = <<>> THEN Parsing(ObjectOf(<<>>), i + 1)
     ELSE IF At(text, i) /= "\"" THEN SyntaxError(text, i)
     ELSE LET j == ClosingQuote(text, i + 1)
              c == SkipSpaces(text, j + 1)
          IN IF j > Len(text) THEN SyntaxError(text, j)
             ELSE IF At(text, c) /= ":" THEN SyntaxError(text, c)
             ELSE LET member == ParseValue(text, c + 1)
                  IN IF ~member.ok THEN member
                     ELSE LET e   == SkipSpaces(text, member.pos)
                              all == Append(members, [key   |-> SubSeq(text, i + 1, j - 1),
                                                      value |-> member.value])
                          IN CASE At(text, e) = "," -> ParseMembers(text, e + 1, all)
                               [] At(text, e) = "}" -> Parsing(ObjectOf(all), e + 1)
                               [] OTHER -> SyntaxError(text, e)

\* JSON.parse(text): the value, or the SyntaxError thrown.
JSONParse(text) ==
  LET top == ParseValue(text, 1)
  IN IF ~top.ok THEN [threw |-> TRUE, message |-> top.message]
     ELSE LET end == SkipSpaces(text, top.pos)
          IN IF end <= Len(text)
             THEN [threw |-> TRUE, message |-> SyntaxError(text, end).message]
             ELSE [threw |-> FALSE, value |-> top.value]

\* Variant of validateSchemaJSON without the try/catch: the SyntaxError
\* leaves the function.
validateSchemaJSON_NoCatch(jsonString) ==
  LET parsed == JSONParse(jsonString)
  IN IF ~parsed.threw THEN validateUISchema(parsed.value)
     ELSE [threw |-> TRUE, message |-> parsed.message]

\* Variant of validateSchemaJSON that accepts every text that parses.
validateSchemaJSON_NoDelegate(jsonString) ==
  LET parsed == JSONParse(jsonString)
  IN IF ~parsed.threw THEN ValidationResult(TRUE, <<>>)
     ELSE ValidationResult(FALSE, <<[type     |-> "schema",
                                     field    |-> "json",
                                     message  |-> parsed.message,
                                     severity |-> "error"]>>)

validateSchemaJSON(jsonString) ==
  LET parsed == JSONParse(jsonString)
  IN IF ~parsed.threw THEN validateUISchema(parsed.value)
     ELSE ValidationResult(FALSE, <<[type     |-> "schema",
                                     field    |-> "json",
                                     message  |-> parsed.message,
                                     severity |-> "error"]>>)

(***************************************************************************)
(* The validators are called with candidates drawn from the sets below:    *)
(* typed values with defects of content, values of a wrong type, objects   *)
(* with missing and with unknown keys.                                     *)
(***************************************************************************)
MaxListLen == 2

MaxRule == 2

\* The object with the keys of r whose value is not undefined.
Present(r) == Obj([key \in {x \in DOMAIN r : r[x].k /= "undefined"} |-> r[key]])

Ctl(id, type, label, name) ==
  Obj([id    |-> Str(Chars(id)),
       type  |-> Str(Chars(type)),
       label |-> Str(Chars(label)),
       name  |-> Str(Chars(name))])

WithKey(x, key, value) == Obj(Spread(x.v, [n \in {key} |-> value]))

Opt(label, value) == Obj([label |-> Str(Chars(label)), value |-> Str(Chars(value))])

ctrl1 == Ctl("ctrl1", "text", "Name", "name")

\* The controls a schema candidate is made of: ctrl1, controls that share
\* its id or its name, and controls with a defect of their own.
SchemaControls ==
  {ctrl1,
   Ctl("ctrl1", "email", "Email", "email"),
   Ctl("ctrl2", "email", "Email", "name"),
   Ctl("ctrl1", "text", "", "name"),
   Ctl("ctrl1", "invalid", "Name", "name"),
   Ctl("ctrl2", "select", "Choose", "choice")}

RECURSIVE ListsUpTo(_, _)
ListsUpTo(S, n) ==
  IF n = 0 THEN {<<>>}
  ELSE ListsUpTo(S, n - 1)
         \cup {Append(l, x) : l \in {m \in ListsUpTo(S, n - 1) : Len(m) = n - 1}, x \in S}

LayoutCandidates == {Str(Chars("vertical")), Str(Chars("invalid")), Undefined}

SchemaCandidates ==
  {Present([layout |-> layout, controls |-> Arr(controls)]) :
      layout \in LayoutCandidates, controls \in ListsUpTo(SchemaControls, MaxListLen)}
  \cup {JsNull, Undefined, Num(1), Str(Chars("schema")), Arr(<<>>), Obj(<<>>),
        Obj([layout |-> Str(Chars("grid")), controls |-> JsNull]),
        Obj([layout |-> Str(Chars("grid")), controls |-> Arr(<<ctrl1>>),
             title |-> Str(Chars("Test Form")), version |-> Num(2)])}

ControlCandidates ==
  SchemaControls
  \cup {WithKey(Ctl(id, type, "Choose", "choice"), "options", options) :
          id \in {"ctrl1", "ctrl2"},
          type \in {"select", "text", "checkbox"},
          options \in {Arr(<<>>), Arr(<<Opt("Option 1", "opt1")>>),
                       Arr(<<Opt("Option 1", "opt1"), Opt("", "opt2")>>), JsNull}}
  \cup {Ctl("ctrl2", type, "Label", "field") : type \in ControlTypes}
  \cup {Ctl("", "invalid", "", ""),
        Ctl("ctrl1", "text", "Name", "123invalid"),
        Ctl("ctrl2", "text", "Name", "_ok_1"),
        WithKey(ctrl1, "id", Num(7)),
        WithKey(ctrl1, "required", Str(Chars("yes"))),
        WithKey(ctrl1, "extra", Bool(TRUE)),
        Obj([id |-> Str(Chars("ctrl1")), label |-> Str(Chars("Name"))]),
        Obj(<<>>), JsNull, Undefined, Num(0), Str(Chars("ctrl1")), Arr(<<ctrl1>>)}

ExistingControlLists ==
  {<<>>, <<ctrl1>>, <<Ctl("ctrl3", "text", "Other", "other"), ctrl1>>}

RuleNumbers == {Undefined} \cup {Num(n) : n \in -1..MaxRule}

RuleCandidates ==
  {Present([minLength |-> minLength, maxLength |-> maxLength,
            min |-> min, max |-> max, pattern |-> pattern]) :
      minLength \in RuleNumbers, maxLength \in RuleNumbers,
      min \in RuleNumbers, max \in RuleNumbers,
      pattern \in {Undefined, Str(<<>>), Str(Chars("^a$"))}}
  \cup {JsNull, Undefined, Num(5), Arr(<<>>),
        Obj([minLength |-> Num(-1), maxLength |-> Str(Chars("invalid"))]),
        Obj([minLength |-> Num(2), maxLength |-> Num(1), required |-> Bool(TRUE)]),
        Obj([minLength |-> Num(1), maxLength |-> Num(2), required |-> Bool(TRUE)]),
        Obj([pattern |-> Num(1)])}

SchemaTexts ==
  {"{ invalid json }",
   "",
   "null",
   "42",
   "[1,]",
   "{\"layout\":\"vertical\",\"controls\":[]}",
   "{\"layout\":\"invalid\",\"controls\":[]}",
   "{\"layout\":\"vertical\",\"controls\":[]} x",
   "{\"layout\":\"vertical\",\"controls\":[",
   "{\"layout\": \"vertical\", \"controls\": [{\"id\":\"ctrl1\",\"type\":\"text\",\"label\":\"Name\",\"name\":\"name\"}]}",
   "{\"controls\": [{\"id\":\"ctrl1\",\"type\":\"text\",\"label\":\"Name\",\"name\":\"name\"}, {\"id\":\"ctrl1\",\"type\":\"email\",\"label\":\"Email\",\"name\":\"name\"}], \"layout\": \"grid\"}"}

\* One call of a validator is looked at.
NoCallYet == checked.fn = "none"

Checked(call) ==
  /\ checked' = call
  /\ UNCHANGED <<state, now, steps, prev, lastAction, lastCall, trail, mutated, rendered>>

checkSchema ==
  /\ NoCallYet
  /\ \E schema \in SchemaCandidates :
     Checked([fn |-> "validateUISchema", input |-> schema,
              result |-> validateUISchema(schema)])

checkControl ==
  /\ NoCallYet
  /\ \E control \in ControlCandidates, existing \in ExistingControlLists :
     Checked([fn |-> "validateUIControl", input |-> control,
              existingControls |-> existing,
              result |-> validateUIControl(control, existing)])

checkRules ==
  /\ NoCallYet
  /\ \E rules \in RuleCandidates, type \in ControlTypes :
     Checked([fn |-> "validateValidationRules", input |-> rules,
              controlType |-> type,
              result |-> validateValidationRules(rules, type)])

checkSchemaJSON ==
  /\ NoCallYet
  /\ \E jsonString \in SchemaTexts :
     Checked([fn |-> "validateSchemaJSON", input |-> jsonString,
              result |-> validateSchemaJSON(jsonString)])

ValidatorNext ==
  \/ checkSchema
  \/ checkControl
  \/ checkRules
  \/ checkSchemaJSON

ValidatorSpec == Init /\ [][ValidatorNext]_vars

(***************************************************************************)
(* Properties of the history store (checked under Spec).                   *)
(***************************************************************************)
PresentFields == {"schema", "selectedControlId", "mode", "errors", "isDirty"}

NonStructuralTypes == {"SELECT_CONTROL", "SET_MODE", "SET_ERRORS", "SET_DIRTY"}

\* The field of present a non-structural command writes.
OwnField(type) ==
  CASE type = "SELECT_CONTROL" -> "selectedControlId"
    [] type = "SET_MODE"       -> "mode"
    [] type = "SET_ERRORS"     -> "errors"
    [] type = "SET_DIRTY"      -> "isDirty"

\* n UNDO commands, n REDO commands.
RECURSIVE UndoN(_, _)
UndoN(s, n) ==
  IF n = 0 THEN s ELSE UndoN(editorReducer(s, [type |-> "UNDO"]), n - 1)

RECURSIVE RedoN(_, _)
RedoN(s, n) ==
  IF n = 0 THEN s ELSE RedoN(editorReducer(s, [type |-> "REDO"]), n - 1)

\* C1: undo/redo inverse law.  trail holds S0 and the states after each of
\* the n structural commands applied from it (every suffix of the run is
\* such a run too): n undo commands applied to the state after the n-th
\* command give the present and the past of S0, and n redo commands after
\* that give exactly the state after the n-th command.
C1_UndoRedoInverse ==
  /\ trail[Len(trail)] = state
  /\ \A i \in 1..Len(trail) :
       LET n      == Len(trail) - i
           undone == UndoN(state, n)
       IN /\ undone.present = trail[i].present
          /\ undone.past = trail[i].past
          /\ RedoN(undone, n) = state

\* Two structural commands applied from a state S0 that has both a past and
\* a future of its own.
C1_Witness ==
  /\ Len(trail) >= 3
  /\ trail[1].past /= <<>>
  /\ trail[1].future /= <<>>
  /\ state.present /= trail[1].present
  /\ UndoN(state, Len(trail) - 1).future /= trail[1].future

\* C2: each of the six structural commands appends the pre-command present
\* as the last entry of past and empties future, whatever future held.
C2_StructuralPushesAndClears ==
  lastAction.type \in StructuralTypes =>
    /\ state.past = Append(prev.past, prev.present)
    /\ state.future = <<>>

\* A structural command dispatched when past and future were both non-empty.
C2_Witness ==
  /\ lastAction.type \in StructuralTypes
  /\ prev.past /= <<>>
  /\ prev.future /= <<>>

\* C3: select-control, set-mode, set-diagnostics and set-dirty leave past and
\* future unchanged and write only their own field of present: the schema and
\* the other three fields keep their values.
C3_NonStructuralFrame ==
  lastAction.type \in NonStructuralTypes =>
    /\ state.past = prev.past
    /\ state.future = prev.future
    /\ DOMAIN state.present = PresentFields
    /\ \A f \in PresentFields \ {OwnField(lastAction.type)} :
          state.present[f] = prev.present[f]
    /\ state.present[OwnField(lastAction.type)] = lastAction.payload

\* A non-structural command that changed present while both stacks held
\* entries and the schema was not the initial one.
C3_Witness ==
  /\ lastAction.type \in NonStructuralTypes
  /\ state.present /= prev.present
  /\ prev.past /= <<>>
  /\ prev.future /= <<>>
  /\ prev.present.schema.controls /= <<>>

\* C4: undo on an empty past and redo on an empty future return the
\* HistoryState unchanged (present, past and future), and are defined there.
C4_EmptyStackNoOp ==
  /\ (lastAction.type = "UNDO" /\ prev.past = <<>>) => state = prev
  /\ (lastAction.type = "REDO" /\ prev.future = <<>>) => state = prev
  /\ state.past = <<>> => editorReducer(state, [type |-> "UNDO"]) = state
  /\ state.future = <<>> => editorReducer(state, [type |-> "REDO"]) = state

\* undo dispatched on an empty past while future holds entries (on such a
\* state, reached again, redo on an empty future is the mirror case).
C4_Witness ==
  /\ lastAction.type = "UNDO"
  /\ prev.past = <<>>
  /\ prev.future /= <<>>
  /\ prev.present.isDirty

\* C5: undo on a non-empty past makes the last entry of past the present,
\* removes exactly that entry (the others keep their places) and puts the old
\* present at the front of future, ahead of the entries future held.
C5_Undo ==
  (lastAction.type = "UNDO" /\ prev.past /= <<>>) =>
    /\ state.present = prev.past[Len(prev.past)]
    /\ Len(state.past) = Len(prev.past) - 1
    /\ \A i \in 1..Len(state.past) : state.past[i] = prev.past[i]
    /\ Len(state.future) = Len(prev.future) + 1
    /\ state.future[1] = prev.present
    /\ \A i \in 1..Len(prev.future) : state.future[i + 1] = prev.future[i]

\* undo with at least two entries in past and one in future.
C5_Witness ==
  /\ lastAction.type = "UNDO"
  /\ Len(prev.past) >= 2
  /\ Len(prev.future) >= 1
  /\ prev.past[1] /= prev.past[2]

\* C6: redo on a non-empty future makes the first entry of future the
\* present, removes exactly that entry and appends the old present as the
\* last entry of past.
C6_Redo ==
  (lastAction.type = "REDO" /\ prev.future /= <<>>) =>
    /\ state.present = prev.future[1]
    /\ Len(state.future) = Len(prev.future) - 1
    /\ \A i \in 1..Len(state.future) : state.future[i] = prev.future[i + 1]
    /\ Len(state.past) = Len(prev.past) + 1
    /\ state.past[Len(state.past)] = prev.present
    /\ \A i \in 1..Len(prev.past) : state.past[i] = prev.past[i]

\* redo with at least two different entries in future.
C6_Witness ==
  /\ lastAction.type = "REDO"
  /\ Len(prev.future) >= 2
  /\ prev.future[1] /= prev.future[2]

\* C7: clear-history empties past and future and leaves every field of
\* present unchanged; undo and redo are then no-ops.
C7_ClearHistory ==
  lastAction.type = "CLEAR_HISTORY" =>
    /\ state.past = <<>>
    /\ state.future = <<>>
    /\ state.present = prev.present
    /\ editorReducer(state, [type |-> "UNDO"]) = state
    /\ editorReducer(state, [type |-> "REDO"]) = state

\* clear-history dispatched when both stacks held entries.
C7_Witness ==
  /\ lastAction.type = "CLEAR_HISTORY"
  /\ prev.past /= <<>>
  /\ prev.future /= <<>>

\* C8: canUndo is true exactly when past is non-empty and canRedo exactly
\* when future is non-empty; a fresh store has both false, and right after a
\* structural command canUndo is true and canRedo is false.
C8_CanUndoCanRedo ==
  /\ canUndo <=> state.past /= <<>>
  /\ canRedo <=> state.future /= <<>>
  /\ steps = 0 => (~canUndo /\ ~canRedo)
  /\ lastAction.type \in StructuralTypes => (canUndo /\ ~canRedo)

\* A structural command that flips both flags: dispatched when past was
\* empty and future was not.
C8_Witness ==
  /\ lastAction.type \in StructuralTypes
  /\ prev.past = <<>>
  /\ prev.future /= <<>>
  /\ canUndo
  /\ ~canRedo

(***************************************************************************)
(* Properties of the palette (checked under PaletteSpec).                  *)
(***************************************************************************)
\* C9: add-control(kind) appends exactly one new control of the requested
\* kind as the last element of schema.controls, leaves every existing control
\* and its position unchanged, selects the new control and sets dirty.
C9_AddControl ==
  lastCall.op = "addControl" =>
    LET before == prev.present.schema.controls
        after  == state.present.schema.controls
    IN /\ Len(after) = Len(before) + 1
       /\ \A i \in 1..Len(before) : after[i] = before[i]
       /\ after[Len(after)].type = lastCall.type
       /\ after[Len(after)] = lastAction.payload
       /\ state.present.selectedControlId = Some(after[Len(after)].id)
       /\ state.present.isDirty = TRUE

\* A select control added after two other controls, while another control
\* was selected.
C9_Witness ==
  /\ lastCall.op = "addControl"
  /\ lastCall.type = "select"
  /\ Len(prev.present.schema.controls) >= 2
  /\ prev.present.schema.controls[1].type = "text"
  /\ prev.present.selectedControlId /= Null

\* C10: the controls of the present schema have pairwise distinct
\* identifiers after any sequence of add-control commands interleaved with
\* undo, redo and remove-control.
C10_IdentifiersDistinct ==
  LET controls == state.present.schema.controls
  IN \A i, j \in 1..Len(controls) : i /= j => controls[i].id /= controls[j].id

\* C11: the controls of the present schema have pairwise distinct
\* field-names after any sequence of add-control commands, two commands of
\* one kind at one clock reading included.
C11_FieldNamesDistinct ==
  LET controls == state.present.schema.controls
  IN \A i, j \in 1..Len(controls) : i /= j => controls[i].name /= controls[j].name

\* C12: REMOVE_CONTROL(id) removes every control whose id equals id and
\* keeps the other controls in their order; selectedControlId becomes null
\* when it equalled id and keeps its value otherwise.
C12_RemoveControl ==
  lastAction.type = "REMOVE_CONTROL" =>
    LET before == prev.present.schema.controls
        after  == state.present.schema.controls
        id     == lastAction.payload
    IN /\ after = SelectSeq(before, LAMBDA c : c.id /= id)
       /\ \A i \in 1..Len(after) : after[i].id /= id
       /\ state.present.selectedControlId =
            IF prev.present.selectedControlId = Some(id)
            THEN Null ELSE prev.present.selectedControlId

\* Two controls with the removed id, selected, after a control that stays.
C12_Witness ==
  /\ lastAction.type = "REMOVE_CONTROL"
  /\ Len(prev.present.schema.controls) = 3
  /\ Len(state.present.schema.controls) = 1
  /\ prev.present.selectedControlId = Some(lastAction.payload)
  /\ state.present.selectedControlId = Null

\* C13: UPDATE_CONTROL(id, newControl) replaces with newControl exactly the
\* positions whose id equals id, keeps length, order and every other
\* control; when no control has the id the list is the one before.
C13_UpdateControl ==
  lastAction.type = "UPDATE_CONTROL" =>
    LET before == prev.present.schema.controls
        after  == state.present.schema.controls
        id     == lastAction.payload.controlId
    IN /\ Len(after) = Len(before)
       /\ \A i \in 1..Len(before) :
            after[i] = IF before[i].id = id
                       THEN lastAction.payload.control ELSE before[i]
       /\ (\A i \in 1..Len(before) : before[i].id /= id) => after = before

\* One control is replaced beside one that is kept.
C13_Witness ==
  /\ lastAction.type = "UPDATE_CONTROL"
  /\ lastAction.payload.controlId = sampleControl.id
  /\ Len(prev.present.schema.controls) >= 2
  /\ state.present.schema.controls /= prev.present.schema.controls
  /\ \E i \in 1..Len(prev.present.schema.controls) :
        /\ prev.present.schema.controls[i].id /= sampleControl.id
        /\ state.present.schema.controls[i] = prev.present.schema.controls[i]

\* C14: UPDATE_CONTROL or REMOVE_CONTROL with an id that no control of
\* present.schema.controls has leaves the whole history state (present with
\* its dirty flag, past and future) as it was.
C14_UnknownIdNoOp ==
  LET before == prev.present.schema.controls
      unknown(id) == \A i \in 1..Len(before) : before[i].id /= id
  IN /\ (lastAction.type = "UPDATE_CONTROL" /\ unknown(lastAction.payload.controlId))
          => state = prev
     /\ (lastAction.type = "REMOVE_CONTROL" /\ unknown(lastAction.payload))
          => state = prev

\* C15: once a structural command has been applied, present.isDirty is true
\* in every later state, undo and redo included, until SET_DIRTY(false).
C15_DirtyUntilSaved ==
  mutated => state.present.isDirty

\* C16: after UPDATE_CONTROL(id, newControl) on a schema containing id, the
\* control at each replaced position still has the id.
C16_IdentifierImmutable ==
  lastAction.type = "UPDATE_CONTROL" =>
    LET before == prev.present.schema.controls
        after  == state.present.schema.controls
    IN \A i \in 1..Len(before) :
          before[i].id = lastAction.payload.controlId => after[i].id = before[i].id

\* C17: SELECT_CONTROL(id) dispatched again with the same id gives the
\* history state of the first dispatch, and neither dispatch adds an entry
\* to past.
C17_SelectIdempotent ==
  lastAction.type = "SELECT_CONTROL" =>
    /\ state.past = prev.past
    /\ editorReducer(state, lastAction) = state
    /\ prev.present.selectedControlId = lastAction.payload => state = prev

\* The second of two SELECT_CONTROL dispatches with one id, from the initial
\* state.
C17_Witness ==
  /\ steps = 2
  /\ state.past = <<>>
  /\ state.present.schema.controls = <<>>
  /\ lastAction.type = "SELECT_CONTROL"
  /\ lastAction.payload = Some(sampleControl.id)
  /\ prev.present.selectedControlId = lastAction.payload
  /\ state = prev

\* C18: a command leaves every stored snapshot as it is: it appends the old
\* present to past, prepends it to future, takes out the entry that becomes
\* present, or drops entries (future on a structural command, both stacks on
\* CLEAR_HISTORY).
C18_SnapshotsUntouched ==
  LET P == prev
      S == state
      type == lastAction.type
  IN CASE type \in StructuralTypes ->
            /\ S.past = Append(P.past, P.present)
            /\ S.future = <<>>
       [] type = "UNDO" /\ P.past /= <<>> ->
            /\ S.past = SubSeq(P.past, 1, Len(P.past) - 1)
            /\ S.present = P.past[Len(P.past)]
            /\ S.future = <<P.present>> \o P.future
       [] type = "REDO" /\ P.future /= <<>> ->
            /\ S.past = Append(P.past, P.present)
            /\ S.present = Head(P.future)
            /\ S.future = Tail(P.future)
       [] type = "CLEAR_HISTORY" ->
            /\ S.past = <<>>
            /\ S.future = <<>>
       [] OTHER ->
            /\ S.past = P.past
            /\ S.future = P.future

\* SET_DIRTY changes the flag of present while past holds a snapshot with
\* the other value and future is not empty.
C18_Witness ==
  /\ lastAction.type = "SET_DIRTY"
  /\ Len(state.past) >= 1
  /\ Len(state.future) >= 1
  /\ state.past[1].isDirty /= state.present.isDirty

\* C19: in every state reached by add-control and the panel's edits of the
\* selected control, each select control of present.schema.controls has at
\* least one option and no control of another kind has options.
C19_OptionsByKind ==
  LET controls == state.present.schema.controls
  IN \A i \in 1..Len(controls) :
        IF controls[i].type = "select"
        THEN "options" \in DOMAIN controls[i] /\ Len(controls[i].options) >= 1
        ELSE "options" \notin DOMAIN controls[i]

\* C20: add-control("select") creates a control whose options are exactly
\* Option 1/option1 and Option 2/option2, in that order; add-control of any
\* other kind creates a control without options.
C20_SelectDefaultOptions ==
  /\ lastCall.op = "addControl" =>
       LET controls == state.present.schema.controls
           added    == controls[Len(controls)]
       IN IF lastCall.type = "select"
          THEN /\ "options" \in DOMAIN added
               /\ added.options =
                    <<[label |-> <<"O", "p", "t", "i", "o", "n", " ", "1">>,
                       value |-> <<"o", "p", "t", "i", "o", "n", "1">>],
                      [label |-> <<"O", "p", "t", "i", "o", "n", " ", "2">>,
                       value |-> <<"o", "p", "t", "i", "o", "n", "2">>]>>
          ELSE "options" \notin DOMAIN added
  /\ \A type \in ControlTypes \ {"select"}, suffix \in RandomSuffixes :
        "options" \notin DOMAIN NewControl(type, now, suffix, now)

\* A select control added to a schema that holds a text control.
C20_Witness ==
  /\ lastCall.op = "addControl"
  /\ lastCall.type = "select"
  /\ Len(state.present.schema.controls) = 2
  /\ state.present.schema.controls[1].type = "text"
  /\ "options" \notin DOMAIN state.present.schema.controls[1]

(***************************************************************************)
(* Properties of the validators (checked under ValidatorSpec).             *)
(***************************************************************************)
\* Two elements of the candidate's controls have one value under the key.
SharesKey(schema, key) ==
  /\ schema.k = "object"
  /\ Get(schema, "controls").k = "array"
  /\ LET controls == Get(schema, "controls").v
     IN \E i, j \in 1..Len(controls) :
           /\ i /= j
           /\ controls[i].k = "object" /\ controls[j].k = "object"
           /\ Get(controls[i], key).k /= "undefined"
           /\ Get(controls[i], key) = Get(controls[j], key)

HasMessage(errors, text) == \E i \in 1..Len(errors) : errors[i].message = <<text>>

HasSeverity(errors, severity) == \E i \in 1..Len(errors) : errors[i].severity = severity

IsNumber(x) == x.k = "number"

\* C21: for every schema candidate in which two controls share an id,
\* validateUISchema gives isValid = false and 'Control IDs must be unique'
\* among the errors, whatever other defects the candidate has.
C21_DuplicateIdsReported ==
  (checked.fn = "validateUISchema" /\ SharesKey(checked.input, "id"))
  => /\ ~checked.result.isValid
     /\ HasMessage(checked.result.errors, "Control IDs must be unique")

\* C22: for every schema candidate in which two controls share a name,
\* validateUISchema gives isValid = false and 'Control names must be
\* unique' among the errors, also when ids are shared too.
C22_DuplicateNamesReported ==
  (checked.fn = "validateUISchema" /\ SharesKey(checked.input, "name"))
  => /\ ~checked.result.isValid
     /\ HasMessage(checked.result.errors, "Control names must be unique")

\* C23: for every control kind validateValidationRules gives isValid =
\* false with an error when minLength and maxLength are both present and
\* minLength > maxLength, or min and max are both present and min > max;
\* equal bounds are accepted and a lone bound is never rejected by the
\* ordering check.
C23_BoundsOrdered ==
  (checked.fn = "validateValidationRules" /\ checked.input.k = "object")
  => LET rules  == checked.input
         result == checked.result
         over(lower, upper) ==
           /\ IsNumber(Get(rules, lower)) /\ IsNumber(Get(rules, upper))
           /\ Get(rules, lower).v > Get(rules, upper).v
         lengthMessage == "minLength must be less than or equal to maxLength"
         boundMessage  == "min must be less than or equal to max"
         typed == \A key \in DOMAIN rules.v :
                     /\ key \in {"minLength", "maxLength", "min", "max"}
                     /\ IsNumber(rules.v[key])
                     /\ key \in {"minLength", "maxLength"} => rules.v[key].v >= 0
     IN /\ (over("minLength", "maxLength") \/ over("min", "max"))
             => ~result.isValid /\ HasSeverity(result.errors, "error")
        /\ ~over("minLength", "maxLength") => ~HasMessage(result.errors, lengthMessage)
        /\ ~over("min", "max") => ~HasMessage(result.errors, boundMessage)
        /\ (typed /\ ~over("minLength", "maxLength") /\ ~over("min", "max"))
             => result.isValid

\* Equal bounds on both pairs, accepted.
C23_Witness ==
  /\ checked.fn = "validateValidationRules"
  /\ checked.input = Obj([minLength |-> Num(MaxRule), maxLength |-> Num(MaxRule),
                          min |-> Num(1), max |-> Num(1)])
  /\ checked.controlType = "number"
  /\ checked.result = ValidationResult(TRUE, <<>>)

\* C24: whenever a structurally valid rule set has minLength, maxLength or
\* pattern present, with any value, and the kind is checkbox or button,
\* the result has a warning; whenever min or max is present and the kind
\* is not number, the result has a warning; isValid stays true.
C24_ScopeWarnings ==
  (/\ checked.fn = "validateValidationRules"
   /\ ValidationRulesSchema(checked.input, <<>>).status = "valid")
  => LET rules == checked.input
         has(key) == Get(rules, key).k /= "undefined"
     IN /\ (/\ checked.controlType \in {"checkbox", "button"}
            /\ has("minLength") \/ has("maxLength") \/ has("pattern"))
             => /\ HasSeverity(checked.result.errors, "warning")
                /\ checked.result.isValid
        /\ (/\ checked.controlType /= "number"
            /\ has("min") \/ has("max"))
             => /\ HasSeverity(checked.result.errors, "warning")
                /\ checked.result.isValid

\* C25: validateUIControl gives isValid = false whenever the candidate's id
\* or name equals that of an existing control, with an error of field 'id'
\* for the id and one of field 'name' for the name, for every candidate,
\* one that fails a structural check included.
C25_CollisionsReported ==
  (checked.fn = "validateUIControl" /\ checked.input.k = "object")
  => LET collides(key) ==
           /\ Get(checked.input, key).k /= "undefined"
           /\ \E i \in 1..Len(checked.existingControls) :
                 Get(checked.existingControls[i], key) = Get(checked.input, key)
         reported(key) ==
           \E i \in 1..Len(checked.result.errors) :
              /\ checked.result.errors[i].field = key
              /\ checked.result.errors[i].severity = "error"
     IN /\ collides("id") => ~checked.result.isValid /\ reported("id")
        /\ collides("name") => ~checked.result.isValid /\ reported("name")

\* C26: validateSchemaJSON gives, for a text that does not parse, isValid =
\* false with exactly one error, of type schema, field 'json' and severity
\* error, with the parser's message; for a text that parses, the result of
\* validateUISchema on the parsed value.
C26_SchemaText ==
  checked.fn = "validateSchemaJSON"
  => LET parsed == JSONParse(checked.input)
     IN /\ parsed.threw =>
             /\ ~checked.result.isValid
             /\ Len(checked.result.errors) = 1
             /\ checked.result.errors[1] = [type     |-> "schema",
                                            field    |-> "json",
                                            message  |-> parsed.message,
                                            severity |-> "error"]
        /\ ~parsed.threw => checked.result = validateUISchema(parsed.value)
        /\ checked.input = "{ invalid json }" => parsed.threw
        /\ checked.input = "{\"layout\":\"invalid\",\"controls\":[]}" =>
             /\ ~parsed.threw
             /\ ~checked.result.isValid
             /\ checked.result.errors[1].field = "layout"

\* A text that parses into a schema with two defects.
C26_Witness ==
  /\ checked.fn = "validateSchemaJSON"
  /\ ~JSONParse(checked.input).threw
  /\ Len(checked.result.errors) = 2
  /\ HasMessage(checked.result.errors, "Control names must be unique")

\* The candidate is not of the type the validator works on: not an object,
\* or an object without one of the required keys.
Malformed(x, required) ==
  \/ x.k /= "object"
  \/ \E key \in required : key \notin DOMAIN x.v

\* C27: each validator returns a result for every input, null, values of a
\* wrong type and objects with missing or unknown keys included; a
\* malformed input gives isValid = false with at least one error, never an
\* exception.
C27_Total ==
  checked.fn /= "none"
  => /\ DOMAIN checked.result = {"isValid", "errors"}
     /\ checked.result.isValid \in BOOLEAN
     /\ \/ /\ checked.fn = "validateUISchema"
           /\ Malformed(checked.input, {"layout", "controls"})
        \/ /\ checked.fn = "validateUIControl"
           /\ Malformed(checked.input, {"id", "type", "label", "name"})
        \/ /\ checked.fn = "validateValidationRules"
           /\ Malformed(checked.input, {})
        \/ /\ checked.fn = "validateSchemaJSON"
           /\ \/ JSONParse(checked.input).threw
              \/ Malformed(JSONParse(checked.input).value, {"layout", "controls"})
        => /\ ~checked.result.isValid
           /\ hasValidationErrors(checked.result.errors)

\* A text that is not JSON, turned into a result.
C27_Witness ==
  /\ checked.fn = "validateSchemaJSON"
  /\ checked.input = "{\"layout\":\"vertical\",\"controls\":["
  /\ ~checked.result.isValid
  /\ checked.result.errors[1].message = <<"Unexpected end of JSON input">>

\* C28: validateUIControl rejects a select candidate whose options are
\* absent or empty and a candidate of another kind whose options are not
\* empty, and accepts absent or empty options on a kind other than select.
C28_OptionsByKind ==
  (checked.fn = "validateUIControl" /\ checked.input.k = "object")
  => LET control == checked.input
         result  == checked.result
         text(key) == Get(control, key).k = "string" /\ Get(control, key).v /= <<>>
         kind    == Get(control, "type")
         options == Get(control, "options")
         typed   == /\ DOMAIN control.v \subseteq {"id", "type", "label", "name", "options"}
                    /\ text("id") /\ text("label") /\ text("name")
                    /\ IsIdentifier(Get(control, "name").v)
                    /\ kind.k = "string"
                    /\ \E type \in ControlTypes : TypeChars(type) = kind.v
                    /\ options.k \in {"undefined", "array"}
                    /\ options.k = "array" =>
                         \A i \in 1..Len(options.v) :
                            /\ options.v[i].k = "object"
                            /\ Get(options.v[i], "label").k = "string"
                            /\ Get(options.v[i], "value").k = "string"
         select  == kind.v = TypeChars("select")
         none    == options.k = "undefined" \/ options.v = <<>>
     IN typed =>
          /\ (select /\ none) =>
                /\ ~result.isValid
                /\ HasMessage(result.errors, "Select controls must have at least one option")
          /\ (~select /\ ~none) =>
                /\ ~result.isValid
                /\ HasMessage(result.errors, "Only select controls can have options")
          /\ (~select /\ none /\ checked.existingControls = <<>>) => result.isValid

\* A select candidate with an empty list of options, rejected.
C28_Witness ==
  /\ checked.fn = "validateUIControl"
  /\ checked.input.k = "object"
  /\ Get(checked.input, "type") = Str(TypeChars("select"))
  /\ Get(checked.input, "options") = Arr(<<>>)
  /\ ~checked.result.isValid
  /\ checked.result.errors[1].field = "options"

\* C29: REORDER_CONTROLS(newOrder) replaces schema.controls with exactly
\* newOrder, and the controls after the command are a permutation of the
\* controls before it.
C29_ReorderIsPermutation ==
  lastAction.type = "REORDER_CONTROLS" =>
    LET before == prev.present.schema.controls
        after  == state.present.schema.controls
        count(controls, c) == Cardinality({i \in 1..Len(controls) : controls[i] = c})
    IN /\ after = lastAction.payload
       /\ Len(after) = Len(before)
       /\ \A i \in 1..Len(before) : count(after, before[i]) = count(before, before[i])

\* C30: when the panel issues two UPDATE_CONTROL commands in succession
\* for two different properties of one control, the control in present
\* after the second still has the first property as the first command left
\* it, whether or not the panel was rendered in between.
C30_BothEditsKept ==
  (/\ lastCall.op \in PanelOps
   /\ lastCall.previous.op \in PanelOps
   /\ lastCall.previous.id = lastCall.id
   /\ lastCall.previous.property /= lastCall.property)
  => LET first  == lastCall.previous.property
         after  == state.present.schema.controls
         before == prev.present.schema.controls
     IN \A i \in 1..Len(after) :
           after[i].id = lastCall.id =>
              /\ first \in DOMAIN after[i] <=> first \in DOMAIN before[i]
              /\ first \in DOMAIN after[i] => after[i][first] = before[i][first]

(***************************************************************************)
(* C31: in every reachable state the selected-control accessor returns the *)
(* first control of present.schema.controls whose identifier equals        *)
(* selectedControlId, and none when selectedControlId is none or names no  *)
(* control of the present schema.                                          *)
(***************************************************************************)
C31_SelectedControlLookup ==
  LET controls == state.present.schema.controls
      id == state.present.selectedControlId
      hits == {i \in 1..Len(controls) : Some(controls[i].id) = id}
  IN /\ (id = Null \/ hits = {}) => selectedControl(state) = Null
     /\ (id /= Null /\ hits /= {}) =>
           \E i \in hits : /\ \A j \in hits : i <= j
                           /\ selectedControl(state) = Some(controls[i])

(***************************************************************************)
(* C32: after handleValidationChange has cleared a rule, the control it    *)
(* dispatches has no such rule, and when no rule is left its validation    *)
(* field is undefined: validation is never an empty object and never       *)
(* holds a rule whose value is undefined.                                  *)
(***************************************************************************)
C32_ClearedRuleRemoved ==
  lastCall.op = "handleValidationChange" =>
    LET control == lastAction.payload.control
    IN "validation" \in DOMAIN control =>
         /\ DOMAIN control.validation /= {}
         /\ \A rule \in DOMAIN control.validation :
               control.validation[rule] /= Undefined

(***************************************************************************)
(* Whole-snapshot properties of undo and redo (checked under Spec).        *)
(***************************************************************************)
\* The non-structural commands with the payloads of the model.
NonStructuralActions ==
  {[type |-> "SELECT_CONTROL", payload |-> p] : p \in SelectPayloads}
    \cup {[type |-> "SET_MODE", payload |-> p] : p \in ModePayloads}
    \cup {[type |-> "SET_ERRORS", payload |-> p] : p \in ErrorsPayloads}
    \cup {[type |-> "SET_DIRTY", payload |-> p] : p \in BOOLEAN}

\* Runs of non-structural commands: none, each command alone, and the four
\* kinds one after the other with each of their payloads.
NonStructuralRuns ==
  {<<>>} \cup {<<a>> : a \in NonStructuralActions}
         \cup {<<[type |-> "SELECT_CONTROL", payload |-> Some(sampleControl.id)],
                  [type |-> "SET_MODE", payload |-> "json"],
                  [type |-> "SET_ERRORS", payload |-> <<sampleError>>],
                  [type |-> "SET_DIRTY", payload |-> FALSE]>>,
                <<[type |-> "SET_DIRTY", payload |-> TRUE],
                  [type |-> "SET_ERRORS", payload |-> <<>>],
                  [type |-> "SET_MODE", payload |-> "visual"],
                  [type |-> "SELECT_CONTROL", payload |-> Null]>>}

RECURSIVE Apply(_, _)
Apply(s, actions) ==
  IF actions = <<>> THEN s
  ELSE Apply(editorReducer(s, Head(actions)), Tail(actions))

\* C33: undo and redo restore a whole snapshot.  When a structural command
\* has just been applied (prev is the state before it) and any run of
\* select-control, set-mode, set-diagnostics and set-dirty commands follows,
\* undo makes present the present of before the structural command, with its
\* selectedControlId, mode, errors and isDirty, whatever the run changed;
\* the present the run had built is the first entry of future, and redo
\* brings it back.
C33_WholeSnapshot ==
  /\ lastAction.type \in StructuralTypes =>
        \A run \in NonStructuralRuns :
           LET after  == Apply(state, run)
               undone == editorReducer(after, [type |-> "UNDO"])
               redone == editorReducer(undone, [type |-> "REDO"])
           IN /\ \A f \in PresentFields : undone.present[f] = prev.present[f]
              /\ undone.future /= <<>>
              /\ undone.future[1] = after.present
              /\ redone.present = after.present
  /\ (lastAction.type = "UNDO" /\ prev.past /= <<>>) =>
        /\ \A f \in PresentFields : state.present[f] = prev.past[Len(prev.past)][f]
        /\ state.future[1] = prev.present
        /\ editorReducer(state, [type |-> "REDO"]).present = prev.present

\* An undo that has dropped a change of mode, of selection, of diagnostics
\* and of the dirty flag made after the undone command, the schema change
\* apart.
C33_Witness ==
  /\ lastAction.type = "UNDO"
  /\ prev.past /= <<>>
  /\ state.present.schema /= prev.present.schema
  /\ state.present.mode /= prev.present.mode
  /\ state.present.selectedControlId /= prev.present.selectedControlId
  /\ state.present.errors /= prev.present.errors
  /\ state.present.isDirty /= prev.present.isDirty

\* The snapshots a HistoryState keeps beside present.
Snapshots(s) == Len(s.past) + Len(s.future)

\* C34: undo and redo are mutual inverses on whole HistoryStates.  For every
\* state with a non-empty past, redo after undo gives back that state
\* (present, past and future); for every state with a non-empty future, undo
\* after redo gives back that state; neither changes |past| + |future|.
\* The same is stated of the undo or redo the store has just performed.
C34_MutualInverses ==
  LET undone == editorReducer(state, [type |-> "UNDO"])
      redone == editorReducer(state, [type |-> "REDO"])
  IN /\ state.past /= <<>> =>
          /\ editorReducer(undone, [type |-> "REDO"]) = state
          /\ Snapshots(undone) = Snapshots(state)
     /\ state.future /= <<>> =>
          /\ editorReducer(redone, [type |-> "UNDO"]) = state
          /\ Snapshots(redone) = Snapshots(state)
     /\ (lastAction.type = "UNDO" /\ prev.past /= <<>>) =>
          /\ redone = prev
          /\ Snapshots(state) = Snapshots(prev)
     /\ (lastAction.type = "REDO" /\ prev.future /= <<>>) =>
          /\ undone = prev
          /\ Snapshots(state) = Snapshots(prev)

\* An undo performed in a state that had two entries in past and one in
\* future, all different from present.
C34_Witness ==
  /\ lastAction.type = "UNDO"
  /\ Len(prev.past) >= 2
  /\ Len(prev.future) >= 1
  /\ prev.past[1] /= prev.past[2]
  /\ prev.present \notin {prev.past[Len(prev.past)], prev.future[1]}

\* The structural commands that do not write selectedControlId.
SelectionKeepingTypes ==
  {"SET_SCHEMA", "UPDATE_SCHEMA_METADATA", "UPDATE_CONTROL", "REORDER_CONTROLS"}

\* The ids of the controls of a schema, as values of selectedControlId.
SelectableIds(schema) ==
  {Some(schema.controls[i].id) : i \in 1..Len(schema.controls)}

\* C35: frame of the structural commands.  Every structural command leaves
\* present.mode and present.errors unchanged; replace-schema,
\* update-metadata, update-control and reorder-controls also leave
\* selectedControlId unchanged, even when the selected identifier is no
\* longer in the new schema; update-metadata changes only the fields its
\* payload names and leaves controls unchanged.
C35_StructuralFrame ==
  /\ lastAction.type \in StructuralTypes =>
        /\ state.present.mode = prev.present.mode
        /\ state.present.errors = prev.present.errors
  /\ lastAction.type \in SelectionKeepingTypes =>
        state.present.selectedControlId = prev.present.selectedControlId
  /\ lastAction.type = "UPDATE_SCHEMA_METADATA" =>
        /\ DOMAIN lastAction.payload \subseteq {"title", "description", "layout"}
        /\ DOMAIN state.present.schema =
              DOMAIN prev.present.schema \cup DOMAIN lastAction.payload
        /\ \A k \in DOMAIN state.present.schema :
              state.present.schema[k] =
                 IF k \in DOMAIN lastAction.payload THEN lastAction.payload[k]
                 ELSE prev.present.schema[k]
        /\ state.present.schema.controls = prev.present.schema.controls

\* reorder-controls applied in json mode, with diagnostics, while a control
\* is selected that the new list does not hold.
C35_Witness ==
  /\ lastAction.type = "REORDER_CONTROLS"
  /\ prev.present.mode = "json"
  /\ prev.present.errors /= <<>>
  /\ prev.present.selectedControlId \in SelectableIds(prev.present.schema)
  /\ state.present.selectedControlId \notin SelectableIds(state.present.schema)

\* A snapshot whose selection is none or a control of its own schema.
SelectionInSchema(snapshot) ==
  snapshot.selectedControlId \in {Null} \cup SelectableIds(snapshot.schema)

\* C36: selection never dangles under the palette and canvas commands.
\* When select-control is given none or the identifier of a control of the
\* present schema only, and the structural commands are add-control and
\* remove-control only, selectedControlId is none or the identifier of a
\* control of present.schema.controls in every reachable state, the states
\* reached by undo and redo included (so in every snapshot of past and
\* future too).
C36_SelectionNeverDangles ==
  /\ SelectionInSchema(state.present)
  /\ \A i \in 1..Len(state.past) : SelectionInSchema(state.past[i])
  /\ \A i \in 1..Len(state.future) : SelectionInSchema(state.future[i])

\* The selected control has been removed while another control stays, and
\* the removal has been undone: the selection is back on a control that is
\* back in the schema.
C36_Witness ==
  /\ lastAction.type = "UNDO"
  /\ prev.present.selectedControlId = Null
  /\ prev.present.schema.controls /= <<>>
  /\ state.present.selectedControlId /= Null
  /\ state.present.selectedControlId \notin SelectableIds(prev.present.schema)
  /\ state.present.selectedControlId \in SelectableIds(state.present.schema)

(***************************************************************************)
(* C37: for each of validateUISchema, validateUIControl,                   *)
(* validateValidationRules and validateSchemaJSON, isValid is true exactly *)
(* when the errors returned hold no entry of severity error: an invalid    *)
(* result carries at least one error, a valid one warnings or nothing.     *)
(***************************************************************************)
C37_ValidIffNoError ==
  ~NoCallYet =>
    /\ checked.result.isValid = ~hasValidationErrors(checked.result.errors)
    /\ ~checked.result.isValid =>
          \E i \in 1..Len(checked.result.errors) :
             checked.result.errors[i].severity = "error"
    /\ checked.result.isValid =>
          \A i \in 1..Len(checked.result.errors) :
             checked.result.errors[i].severity = "warning"

\* A valid result that carries warnings.
C37_Witness ==
  /\ checked.fn = "validateValidationRules"
  /\ checked.result.isValid
  /\ Len(checked.result.errors) >= 2
  /\ \A i \in 1..Len(checked.result.errors) :
        checked.result.errors[i].severity = "warning"

\* The schema with a layout and a list of controls.
SchemaOf(layout, controls) ==
  Obj([layout |-> Str(LayoutChars(layout)), controls |-> Arr(controls)])

\* C38: control-level and schema-level validation agree.  If validateUISchema
\* accepts a schema S and validateUIControl accepts a control c against the
\* controls of S, then validateUISchema accepts S with c appended to its
\* controls.
C38_ControlAndSchemaAgree ==
  checked.fn = "validateUIControl" =>
    \A layout \in LayoutTypes :
       (/\ validateUISchema(SchemaOf(layout, checked.existingControls)).isValid
        /\ checked.result.isValid)
       => validateUISchema(SchemaOf(layout,
                                    Append(checked.existingControls, checked.input))).isValid

\* A control accepted against two existing controls of a valid schema.
C38_Witness ==
  /\ checked.fn = "validateUIControl"
  /\ Len(checked.existingControls) = 2
  /\ validateUISchema(SchemaOf("grid", checked.existingControls)).isValid
  /\ checked.result.isValid
  /\ "options" \in DOMAIN checked.input.v

(***************************************************************************)
(* The controls of the store as values the validator is given.             *)
(***************************************************************************)
\* A control of the store as a JavaScript object: every key it has, with a
\* string, a boolean or an array of option objects as its value.
ControlValue(control) ==
  Obj([key \in DOMAIN control |->
         CASE key = "type"     -> Str(TypeChars(control.type))
           [] key = "required" -> Bool(control.required)
           [] key = "options"  ->
                Arr([i \in 1..Len(control.options) |->
                       Obj([label |-> Str(control.options[i].label),
                            value |-> Str(control.options[i].value)])])
           [] OTHER            -> Str(control[key])])

\* The structural checks, read off a control of the store.
StructurallySound(control) ==
  /\ control.id /= <<>>
  /\ control.label /= <<>>
  /\ control.name /= <<>>
  /\ IsIdentifier(control.name)
  /\ (control.type = "select") <=>
        ("options" \in DOMAIN control /\ control.options /= <<>>)

\* C39: every control addControl synthesizes, for each of the eight kinds,
\* passes the structural checks of validateUIControl with no existing
\* controls: non-empty id, label and name, a name that is an identifier,
\* and options non-empty exactly when the kind is select.
C39_NewControlsAreValid ==
  lastCall.op = "addControl" =>
    /\ validateUIControl(ControlValue(lastAction.payload), <<>>)
          = ValidationResult(TRUE, <<>>)
    /\ StructurallySound(lastAction.payload)

\* addControl('select') called after the clock has moved.
C39_Witness ==
  /\ lastCall.op = "addControl"
  /\ lastCall.type = "select"
  /\ lastAction.payload.type = "select"
  /\ now >= 1
  /\ Len(state.present.schema.controls) >= 2
  /\ state.present.schema.controls[1].type = "checkbox"

(***************************************************************************)
(* Drag and drop on the canvas (checked under CanvasSpec).                 *)
(***************************************************************************)
\* A list without its k-th element (k from 1).
AllBut(list, k) ==
  [i \in 1..(Len(list) - 1) |-> IF i < k THEN list[i] ELSE list[i + 1]]

\* How many times x is in a list.
Occurrences(list, x) == Cardinality({i \in 1..Len(list) : list[i] = x})

\* C40: handleDragEnd emits only permutations.  It calls onControlsReorder
\* with the current controls in which the dragged control has gone from the
\* source index to the destination index and the other controls keep their
\* relative order (same controls, same count); it emits nothing when there
\* is no destination or when the two indices are equal.
C40_DragEmitsPermutation ==
  lastCall.op = "handleDragEnd" =>
    LET controls == lastCall.controls
        source   == lastCall.sourceIndex + 1
    IN IF lastCall.destination = Null \/ lastCall.destination = Some(lastCall.sourceIndex)
       THEN lastCall.emitted = Null
       ELSE /\ lastCall.emitted /= Null
            /\ LET emitted     == lastCall.emitted[1]
                   destination == lastCall.destination[1] + 1
               IN /\ Len(emitted) = Len(controls)
                  /\ emitted[destination] = controls[source]
                  /\ AllBut(emitted, destination) = AllBut(controls, source)
                  /\ \A i \in 1..Len(controls) :
                        Occurrences(emitted, controls[i]) = Occurrences(controls, controls[i])
                  /\ lastAction = [type |-> "REORDER_CONTROLS", payload |-> emitted]
                  /\ state.present.schema.controls = emitted

\* The first of three controls dropped on the place of the third.
C40_Witness ==
  /\ lastCall.op = "handleDragEnd"
  /\ Len(lastCall.controls) = 3
  /\ lastCall.sourceIndex = 0
  /\ lastCall.destination = Some(2)
  /\ lastCall.emitted /= Null
  /\ state.present.schema.controls /= prev.present.schema.controls

====
